---- MODULE Spec2Model ----
(***************************************************************************)
(* A model of the gopackagesdriver of rules_go: the pattern parser, the    *)
(* path canonicalisation of package descriptors, the build-event harvester *)
(* and the list pipeline that composes them; of the package descriptor     *)
(* builder (buildPackage, buildStdlibPackages); and of the testwrapper     *)
(* (shouldWrap, wrap, the ingester and toXML).                             *)
(*                                                                         *)
(* Go strings whose characters the code inspects (patterns, paths, file    *)
(* names) are sequences of one-character strings; opaque strings (labels,  *)
(* set identifiers, aspect names) are TLA+ strings.                        *)
(***************************************************************************)
EXTENDS Naturals, Integers, Sequences, FiniteSets, TLC

VARIABLES
    \* parsePatterns
    patterns,        \* the argument: a list of patterns
    pidx,            \* number of patterns the range loop has consumed
    containFiles,    \* local containFiles
    restPatterns,    \* local restPatterns
    stdlibPatterns,  \* local stdlibPatterns
    psrc,            \* history: input position of every entry of the three lists
    ppc,             \* "idle", "loop", "returned" or "panic"
    \* absPkgPaths
    pkg,             \* the descriptor the function rewrites in place
    pkg0,            \* history: the descriptor as it was passed in
    workspaceDir,    \* argument workspaceDir
    execDir,         \* argument execDir
    apc,             \* "idle", "call" or "done"
    \* buildPkgFiles
    bpc,             \* "idle", "tempfile", "run", "read", "decode", "visit",
                     \* "done" (returned), "panic" or "overflow"
    berr,            \* the function's variable err
    tmpExists,       \* whether the temporary event-log file exists
    blog,            \* history: the event log as ioutil.ReadFile returned it
    logData,         \* the records of the log not yet decoded
    setToFiles,      \* map setToFiles
    setToSets,       \* map setToSets
    rootSets,        \* slice rootSets
    files,           \* map files (its key set)
    visited,         \* map visited (its key set)
    rootIdx,         \* number of roots the final range loop has consumed
    stack,           \* the call stack of visit: [set, i] per active call
    expanded,        \* history: the set identifiers visit has expanded, in order
    bret,            \* what buildPkgFiles returned
    bmode,           \* mode: the needs of the request (deps, export, test)
    baspect,         \* the --aspects value the build subprocess was started with
    \* list
    lpc,             \* "idle", "getwd", "walk", "info", "parse", "query", "build",
                     \* "load", "loop", "done" (returned), "fallback" or "panic"
    largs,           \* os.Args[1:]
    lcwd,            \* the working directory
    lfs,             \* the marker files the file system holds
    ldir,            \* dir of the upward walk in getBazelDirs
    lstages,         \* history: the stages list has started, and whether each failed
    ldirs,           \* binDir, workspaceDir, execDir
    lfilesToQuery,   \* filesToQuery
    lpatterns,       \* patterns
    lstdlib,         \* stdlibPatterns
    ltargets,        \* targets
    lfiles,          \* files
    lloaded,         \* history: the descriptors as loadPkgFiles returned them
    lpkgs,           \* pkgs
    lrange,          \* the slice value the loop "range pkgs" was started on
    lidx,            \* number of elements that loop has consumed
    lresp,           \* what list returned
    \* list of the flag-driven driver, up to the aspect name of its build
    fpc,             \* "idle", "parse", "resolve", "build", "done" or "exit"
    fargs,           \* args as given
    frest,           \* the arguments fs.Parse has not consumed yet
    needDeps,        \* -deps
    needExport,      \* -export
    needTests,       \* -test
    buildFlags,      \* -buildflag values
    faspect,         \* the --aspects value the build subprocess was started with
    \* listFallback
    kpc,             \* "idle", "load", "roots", "done"
    kloadErr,        \* history: packages.Load returned an error
    kgraph,          \* Imports of every package the loader returned
    kroots,          \* roots, as packages.Load returned them
    kridx,           \* number of roots the final range loop has consumed
    kseen,           \* seen
    kstack,          \* the active calls of visit: [pkg, todo] with the imports
                     \* the range over pkg.Imports has still to yield
    kresp,           \* resp, and whether listFallback has returned it
    \* buildPackage
    qpc,             \* "idle", "flags", "orig", "compiled", "stdload", "done"
    qcmd,            \* the subcommand: "pkg" or "stdlib"
    qflags,          \* the string flags -id, -importpath, -importmap, -o, -go
    archives,        \* -arc: label and import path of the direct dependencies
    testfilterName,  \* -testfilter
    goSrcs,          \* -go_src, each with what readGoMetadata finds for it
    qidx,            \* number of compiled sources the loop has consumed
    qpkg,            \* pkg: Name and CompiledGoFiles
    qret,            \* what buildPackage returned, and whether the file was written
    \* queryTargets
    tpc,             \* "run", "loop" or "done"
    tbuf,            \* history: buf, the standard output of the query subprocess
    tdata,           \* data
    ttargets,        \* targets
    tret,            \* what queryTargets returned
    \* testwrapper: handleJSONEvent and toXML
    xpc,             \* "ingest" or "done"
    xevents,         \* tests.events
    byName,          \* tests.byName
    suiteDuration,   \* tests.duration
    xreport,         \* the test suite toXML marshals
    \* testwrapper: shouldWrap and wrap
    wpc,             \* the main goroutine: "main", "fatal", "direct", "wrap", "run",
                     \* "closeW", "closeRead", "closeConv", "xml" or "done"
    wenv,            \* os.Environ() of the process
    wverbose,        \* isVerbose(os.Args[1:])
    wshould,         \* what shouldWrap returned in the process
    cpc,             \* the child process: "none", "started", "tests", "wrap",
                     \* "fatal" or "exited"
    cshould,         \* what shouldWrap returned in the child
    wsent,           \* number of events the child's output has given rise to
    convBuf,         \* events the converter holds and has not written yet
    pipePending,     \* a Write on the pipe is waiting for the reader
    pipeClosed,      \* the pipe writer is closed
    dpc,             \* decodeJSONEvents: "none", "read", "handle" or "exit"
    handled,         \* len(tests.events)
    wprinted,        \* number of events the loop of Close ranged over, -1 before
    wlost,           \* events written to the closed pipe
    wxml             \* number of events behind the report writeXML wrote, -1 if none

patVars == <<patterns, pidx, containFiles, restPatterns, stdlibPatterns, psrc, ppc>>
pathVars == <<pkg, pkg0, workspaceDir, execDir, apc>>
buildVars ==
    <<bpc, berr, tmpExists, blog, logData, setToFiles, setToSets, rootSets, files,
      visited, rootIdx, stack, expanded, bret, bmode, baspect>>

listVars ==
    <<lpc, largs, lcwd, lfs, ldir, lstages, ldirs, lfilesToQuery, lpatterns, lstdlib,
      ltargets, lfiles, lloaded, lpkgs, lrange, lidx, lresp>>

flagVars == <<fpc, fargs, frest, needDeps, needExport, needTests, buildFlags, faspect>>

fallbackVars == <<kpc, kloadErr, kgraph, kroots, kridx, kseen, kstack, kresp>>

packageVars ==
    <<qpc, qcmd, qflags, testfilterName, archives, goSrcs, qidx, qpkg, qret>>

queryVars == <<tpc, tbuf, tdata, ttargets, tret>>

xmlVars == <<xpc, xevents, byName, suiteDuration, xreport>>

wrapVars ==
    <<wpc, wenv, wverbose, wshould, cpc, cshould, wsent, convBuf, pipePending,
      pipeClosed, dpc, handled, wprinted, wlost, wxml>>

vars ==
    <<patVars, pathVars, buildVars, listVars, flagVars, fallbackVars, packageVars,
      queryVars, xmlVars, wrapVars>>

(***************************************************************************)
(* Strings                                                                 *)
(***************************************************************************)

\* The characters the model uses, in ascending byte order.
AsciiOrder ==
    <<"%", ".", "/", ":", "=", "@", "A", "B", "C", "D", "E", "F", "G", "H",
      "I", "J", "K", "L", "M", "N", "O", "P", "Q", "R", "S", "T", "U", "V",
      "W", "X", "Y", "Z", "_", "a", "b", "c", "d", "e", "f", "g", "h", "i",
      "j", "k", "l", "m", "n", "o", "p", "q", "r", "s", "t", "u", "v", "w",
      "x", "y", "z", "{">>

\* The rank of a character in byte order (comparisons of runes and bytes).
Ord(c) == CHOOSE i \in 1..Len(AsciiOrder) : AsciiOrder[i] = c

\* strings.HasPrefix
HasPrefix(s, prefix) ==
    /\ Len(s) >= Len(prefix)
    /\ SubSeq(s, 1, Len(prefix)) = prefix

\* strings.Index(s, c) for a one-byte separator: the 0-based position of the
\* first c in s, or -1.
Index(s, c) ==
    IF \E i \in 1..Len(s) : s[i] = c
    THEN (CHOOSE i \in 1..Len(s) : s[i] = c /\ \A j \in 1..(i - 1) : s[j] # c) - 1
    ELSE -1

\* All sequences over S of length at most n.
SeqsUpTo(S, n) == UNION {[1..k -> S] : k \in 0..n}

(***************************************************************************)
(* parsePatterns                                                           *)
(***************************************************************************)

sFile == <<"f", "i", "l", "e">>
sPattern == <<"p", "a", "t", "t", "e", "r", "n">>
sLegacy ==
    <<"i", "a", "m", "a", "s", "h", "a", "m", "e", "d", "t", "o", "u", "s",
      "e", "t", "h", "e", "d", "i", "s", "a", "b", "l", "e", "d", "q", "u",
      "e", "r", "y", "n", "a", "m", "e">>
stdlibPrefix ==
    <<"@", "i", "o", "_", "b", "a", "z", "e", "l", "_", "r", "u", "l", "e",
      "s", "_", "g", "o", "/", "/", ":", "s", "t", "d", "l", "i", "b", "%">>

isStdlibPattern(pattern) == HasPrefix(pattern, stdlibPrefix)

\* Mutant: the stdlib prefix test is forgotten.
NotReservedNoStdlib(pattern) == [list |-> "rest", value |-> pattern]

\* The two branches every "not a reserved query" case shares.
NotReserved(pattern) ==
    IF isStdlibPattern(pattern)
    THEN [list |-> "stdlib", value |-> pattern]
    ELSE [list |-> "rest", value |-> pattern]

\* Mutant: only the lower end of the range a-z is tested.
NotLowerRuneBelowOnly(r) == Ord(r) < Ord("a")

\* The test of the default case's loop over the runes of query.
NotLowerRune(r) == Ord(r) < Ord("a") \/ Ord(r) > Ord("z")

\* query, value := pattern[:eqidx], pattern[eqidx+len("="):]
QueryOf(pattern, eqidx) == SubSeq(pattern, 1, eqidx)

\* Mutant: the value is cut after the last "=" instead of the first.
ValueOfLastEq(pattern, eqidx) ==
    LET last == CHOOSE i \in 1..Len(pattern) :
                    pattern[i] = "=" /\ \A j \in (i + 1)..Len(pattern) : pattern[j] # "="
    IN SubSeq(pattern, last + 1, Len(pattern))

ValueOf(pattern, eqidx) == SubSeq(pattern, eqidx + 2, Len(pattern))

\* The switch on query.
SwitchQuery(pattern, query, value) ==
    CASE query = sFile -> [list |-> "file", value |-> value]
      [] query = sPattern -> [list |-> "rest", value |-> value]
      [] query = sLegacy -> [list |-> "none", value |-> <<>>]
      [] query = <<>> -> NotReserved(pattern)
      [] OTHER ->
           IF \E i \in 1..Len(query) : NotLowerRune(query[i])
           THEN NotReserved(pattern)
           ELSE [list |-> "panic", value |-> <<>>]

\* One iteration of the extractQueries loop: the list the pattern is appended
\* to and the value appended ("none": nothing, "panic": the panic).
Classify(pattern) ==
    LET eqidx == Index(pattern, "=") IN
    IF eqidx < 0
    THEN NotReserved(pattern)
    ELSE SwitchQuery(pattern, QueryOf(pattern, eqidx), ValueOf(pattern, eqidx))

\* Mutant: the new entry is put in front.
AppendToFront(list, v) == <<v>> \o list

\* append(list, v)
AppendTo(list, v) == Append(list, v)

\* Inputs: query words (without "="), values, and the patterns made of them.
MaxPatterns == 2

QueryWords ==
    { <<>>, sFile, sPattern, sLegacy,
      <<"a", "b">>,                 \* lowercase, not a keyword
      sFile \o <<"s">>,             \* lowercase, a keyword is its prefix
      <<"a", ".", "b">>,            \* a rune below 'a'
      <<"a", "{">>,                 \* a rune above 'z'
      stdlibPrefix \o <<"f">> }

QueryValues == { <<>>, <<"a", "=", "b">> }

PatternInputs ==
    QueryWords \cup {w \o <<"=">> \o v : w \in QueryWords, v \in QueryValues}

IdlePatterns ==
    /\ patterns = <<>>
    /\ pidx = 0
    /\ containFiles = <<>>
    /\ restPatterns = <<>>
    /\ stdlibPatterns = <<>>
    /\ psrc = [file |-> <<>>, rest |-> <<>>, stdlib |-> <<>>]
    /\ ppc = "idle"

InitPatterns ==
    /\ patterns \in SeqsUpTo(PatternInputs, MaxPatterns)
    /\ pidx = 0
    /\ containFiles = <<>>
    /\ restPatterns = <<>>
    /\ stdlibPatterns = <<>>
    /\ psrc = [file |-> <<>>, rest |-> <<>>, stdlib |-> <<>>]
    /\ ppc = "loop"

\* for _, pattern := range patterns { ... }: one iteration.
ParsePatternsStep ==
    /\ ppc = "loop"
    /\ pidx < Len(patterns)
    /\ LET c == Classify(patterns[pidx + 1]) IN
         /\ containFiles' =
              IF c.list = "file" THEN AppendTo(containFiles, c.value) ELSE containFiles
         /\ restPatterns' =
              IF c.list = "rest" THEN AppendTo(restPatterns, c.value) ELSE restPatterns
         /\ stdlibPatterns' =
              IF c.list = "stdlib" THEN AppendTo(stdlibPatterns, c.value)
              ELSE stdlibPatterns
         /\ psrc' =
              IF c.list \in {"file", "rest", "stdlib"}
              THEN [psrc EXCEPT ![c.list] = AppendTo(@, pidx + 1)]
              ELSE psrc
         /\ ppc' = IF c.list = "panic" THEN "panic" ELSE "loop"
    /\ pidx' = pidx + 1
    /\ UNCHANGED <<patterns, pathVars, buildVars, listVars, flagVars, fallbackVars, packageVars,
                   queryVars, xmlVars, wrapVars>>

\* return containFiles, restPatterns, stdlibPatterns
ParsePatternsReturn ==
    /\ ppc = "loop"
    /\ pidx = Len(patterns)
    /\ ppc' = "returned"
    /\ UNCHANGED <<patterns, pidx, containFiles, restPatterns, stdlibPatterns, psrc>>
    /\ UNCHANGED <<pathVars, buildVars, listVars, flagVars, fallbackVars, packageVars,
                   queryVars, xmlVars, wrapVars>>

NextPatterns == ParsePatternsStep \/ ParsePatternsReturn

(***************************************************************************)
(* absPkgPaths                                                             *)
(***************************************************************************)

sExternal == <<"e", "x", "t", "e", "r", "n", "a", "l", "/">>
sDot == <<".">>
sDotDot == <<".", ".">>
sSlash == <<"/">>

\* The elements of a path between its separators (empty ones included).
RECURSIVE SplitPath(_)
SplitPath(path) ==
    LET i == Index(path, "/") IN
    IF i < 0 THEN <<path>>
    ELSE <<SubSeq(path, 1, i)>> \o SplitPath(SubSeq(path, i + 2, Len(path)))

\* strings.Join(elems, "/")
RECURSIVE JoinSlash(_)
JoinSlash(elems) ==
    IF Len(elems) = 0 THEN <<>>
    ELSE IF Len(elems) = 1 THEN elems[1]
    ELSE elems[1] \o sSlash \o JoinSlash(Tail(elems))

\* Clean's pass over the elements: "." and empty elements are dropped, ".."
\* removes the element before it, is dropped at the root of a rooted path and
\* is kept at the start of a relative one.
RECURSIVE CleanElems(_, _, _)
CleanElems(elems, out, rooted) ==
    IF Len(elems) = 0 THEN out
    ELSE LET e == Head(elems) IN
         CleanElems(
             Tail(elems),
             IF e = <<>> \/ e = sDot THEN out
             ELSE IF e = sDotDot
                  THEN IF Len(out) > 0 /\ out[Len(out)] # sDotDot
                       THEN SubSeq(out, 1, Len(out) - 1)
                       ELSE IF rooted THEN out ELSE Append(out, e)
                  ELSE Append(out, e),
             rooted)

\* filepath.Clean
CleanPath(path) ==
    IF path = <<>> THEN sDot
    ELSE LET rooted == path[1] = "/"
             body == JoinSlash(CleanElems(SplitPath(path), <<>>, rooted))
         IN IF rooted THEN sSlash \o body
            ELSE IF body = <<>> THEN sDot ELSE body

\* filepath.Join(dir, path): empty leading elements are ignored, the rest is
\* joined with "/" and cleaned; "" when both are empty.
JoinPath(dir, path) ==
    IF dir # <<>> THEN CleanPath(dir \o sSlash \o path)
    ELSE IF path # <<>> THEN CleanPath(path)
    ELSE <<>>

\* Mutant: the external marker is tested without its trailing slash.
absPathIfNecessaryNoSlash(path, wsDir, exDir) ==
    IF HasPrefix(path, SubSeq(sExternal, 1, 8)) THEN JoinPath(exDir, path)
    ELSE IF ~HasPrefix(path, sSlash) THEN JoinPath(wsDir, path)
    ELSE path

\* The closure absPathIfNecessary.
absPathIfNecessary(path, wsDir, exDir) ==
    IF HasPrefix(path, sExternal) THEN JoinPath(exDir, path)
    ELSE IF ~HasPrefix(path, sSlash) THEN JoinPath(wsDir, path)
    ELSE path

\* absPkgPaths: the descriptor after the three loops and the ExportFile test.
absPkgPaths(p, wsDir, exDir) ==
    [p EXCEPT
        !.GoFiles = [i \in 1..Len(@) |-> absPathIfNecessary(@[i], wsDir, exDir)],
        !.CompiledGoFiles = [i \in 1..Len(@) |-> absPathIfNecessary(@[i], wsDir, exDir)],
        !.OtherFiles = [i \in 1..Len(@) |-> absPathIfNecessary(@[i], wsDir, exDir)],
        !.ExportFile = IF @ # <<>> THEN absPathIfNecessary(@, wsDir, exDir) ELSE @]

\* Inputs: paths made of a prefix and a rest; descriptors holding at most
\* maxFiles of them in their three lists together.
MaxFiles == 2

PathPrefixes == { sExternal, sSlash, <<>>, SubSeq(sExternal, 1, 8) }
PathRests == { <<"a">>, <<".", "/", ".", ".", "/", "b">> }
PathInputs == {pre \o rest : pre \in PathPrefixes, rest \in PathRests}

DescriptorInputs(maxFiles) ==
    UNION {
        {[ID |-> "//a", GoFiles |-> g, CompiledGoFiles |-> c, OtherFiles |-> o,
          ExportFile |-> e] :
            g \in [1..n[1] -> PathInputs],
            c \in [1..n[2] -> PathInputs],
            o \in [1..n[3] -> PathInputs],
            e \in PathInputs \cup {<<>>}} :
        n \in {m \in (0..maxFiles) \X (0..maxFiles) \X (0..maxFiles) :
                  m[1] + m[2] + m[3] <= maxFiles}}

NoDescriptor ==
    [ID |-> "", GoFiles |-> <<>>, CompiledGoFiles |-> <<>>, OtherFiles |-> <<>>,
     ExportFile |-> <<>>]

IdlePaths ==
    /\ pkg = NoDescriptor
    /\ pkg0 = NoDescriptor
    /\ workspaceDir = <<>>
    /\ execDir = <<>>
    /\ apc = "idle"

InitPaths ==
    /\ pkg \in DescriptorInputs(MaxFiles)
    /\ pkg0 = pkg
    /\ workspaceDir = <<"/", "w">>
    /\ execDir = <<"/", "e">>
    /\ apc = "call"

\* absPkgPaths(pkg, workspaceDir, execDir)
AbsPkgPaths ==
    /\ apc = "call"
    /\ pkg' = absPkgPaths(pkg, workspaceDir, execDir)
    /\ apc' = "done"
    /\ UNCHANGED <<pkg0, workspaceDir, execDir>>
    /\ UNCHANGED <<patVars, buildVars, listVars, flagVars, fallbackVars, packageVars,
                   queryVars, xmlVars, wrapVars>>

NextPaths == AbsPkgPaths

(***************************************************************************)
(* buildPkgFiles                                                           *)
(***************************************************************************)

aspectFileName == "@io_bazel_rules_go//go/tools/gopackagesdriver:aspect.bzl"

\* The strings.Builder writes of buildPkgFiles: each of the three tests is
\* "if true", whatever the mode.
aspectName ==
    aspectFileName \o "%gopackagesdriver_" \o "deps_" \o "export_" \o "test_" \o "aspect"

\* The needs a load mode can have.
Facets == {"deps", "export", "test"}
ModeInputs == SUBSET Facets
outputGroupName == "gopackagesdriver"

\* error values: nil, and the errors the function can return.
NoErr == [kind |-> "nil", label |-> ""]
TempFileErr == [kind |-> "TempFileError", label |-> ""]
BuildErr == [kind |-> "BuildError", label |-> ""]
ReadErr == [kind |-> "ReadError", label |-> ""]
UnmarshalErr == [kind |-> "UnmarshalError", label |-> ""]
\* fmt.Errorf("%s did not build successfully", id.GetLabel())
TargetErr(label) == [kind |-> "TargetBuildError", label |-> label]

NotReturned == [returned |-> FALSE, nilFiles |-> TRUE, files |-> <<>>, err |-> NoErr]

Range(f) == {f[i] : i \in DOMAIN f}

\* m[k] of a Go map of slices: the zero value (nil) for a missing key.
MapGet(m, k) == IF k \in DOMAIN m THEN m[k] ELSE <<>>

\* m[k] = v
MapPut(m, k, v) == [x \in DOMAIN m \cup {k} |-> IF x = k THEN v ELSE m[x]]

\* a < b for strings: byte-wise lexicographic order.
RECURSIVE StringLess(_, _)
StringLess(a, b) ==
    IF Len(b) = 0 THEN FALSE
    ELSE IF Len(a) = 0 THEN TRUE
    ELSE IF a[1] = b[1] THEN StringLess(Tail(a), Tail(b))
    ELSE Ord(a[1]) < Ord(b[1])

\* Mutant: the list is left in descending order.
RECURSIVE SortStringsDescending(_)
SortStringsDescending(S) ==
    IF S = {} THEN <<>>
    ELSE LET m == CHOOSE x \in S : \A y \in S : x = y \/ StringLess(y, x)
         IN <<m>> \o SortStringsDescending(S \ {m})

\* The keys of the map files appended to sortedFiles, after sort.Strings.
RECURSIVE SortStrings(_)
SortStrings(S) ==
    IF S = {} THEN <<>>
    ELSE LET m == CHOOSE x \in S : \A y \in S : x = y \/ StringLess(x, y)
         IN <<m>> \o SortStrings(S \ {m})

\* Mutant: target-completed events of every aspect are taken.
AspectMatchesAny(ev) == TRUE

\* id.GetAspect() != aspectName { continue }
AspectMatches(ev) == ev.aspect = aspectName

\* The set identifiers one completed event appends to rootSets: those of the
\* output groups named outputGroupName, empty identifiers left out.
RECURSIVE GroupRoots(_)
GroupRoots(groups) ==
    IF Len(groups) = 0 THEN <<>>
    ELSE (IF Head(groups).name # outputGroupName THEN <<>>
          ELSE SelectSeq(Head(groups).fileSets, LAMBDA setId : setId # ""))
         \o GroupRoots(Tail(groups))

\* Mutant: a set counts as visited never.
IsVisitedNever(setId, seen) == FALSE

\* if visited[setId] { return }
IsVisited(setId, seen) == setId \in seen

\* The depth of recursion at which the Go runtime ends the process (stack
\* overflow); every finite set graph stays below it.
MaxDepth == 4

\* The call visit(setId) made with call stack stk: the state as the callee
\* starts its loop over the child sets (or has returned at once).
VisitCall(setId, stk) ==
    IF IsVisited(setId, visited)
    THEN [pc |-> "visit", visited |-> visited, files |-> files, stack |-> stk,
          expanded |-> expanded]
    ELSE IF Len(stk) >= MaxDepth
    THEN [pc |-> "overflow", visited |-> visited, files |-> files, stack |-> stk,
          expanded |-> expanded]
    ELSE [pc |-> "visit",
          visited |-> visited \cup {setId},
          files |-> files \cup Range(MapGet(setToFiles, setId)),
          stack |-> Append(stk, [set |-> setId, i |-> 0]),
          expanded |-> Append(expanded, setId)]

\* Inputs: file names, set identifiers, labels and the records of an event log.
MaxEvents == 3

fileX == <<"x", ".", "j", "s", "o", "n">>
fileY == <<"y", ".", "j", "s", "o", "n">>

Completed(label, aspect, success, groups) ==
    [kind |-> "completed", label |-> label, aspect |-> aspect, success |-> success,
     groups |-> groups, id |-> "", files |-> <<>>, sets |-> <<>>]

NamedSet(id, fs, sets) ==
    [kind |-> "namedSet", label |-> "", aspect |-> "", success |-> FALSE,
     groups |-> <<>>, id |-> id, files |-> fs, sets |-> sets]

\* An event that is neither (progress, configuration, ...), or a record that
\* cannot be decoded.
PlainRecord(kind) ==
    [kind |-> kind, label |-> "", aspect |-> "", success |-> FALSE,
     groups |-> <<>>, id |-> "", files |-> <<>>, sets |-> <<>>]

Group(name, fileSets) == [name |-> name, fileSets |-> fileSets]

EventInputs ==
    { Completed("//a", aspectName, TRUE, <<Group(outputGroupName, <<"s1">>)>>),
      Completed("//b", aspectName, TRUE,
                <<Group("default", <<"s1">>), Group(outputGroupName, <<"", "s2", "s1">>)>>),
      Completed("//a", aspectName, FALSE, <<>>),
      Completed("//b", aspectName, FALSE, <<>>),
      Completed("//b", "other_aspect", FALSE, <<Group(outputGroupName, <<"s2">>)>>),
      NamedSet("s1", <<fileX>>, <<"s2">>),
      NamedSet("s2", <<fileY>>, <<"s1">>),
      NamedSet("s2", <<fileY, fileX>>, <<"s2">>),
      PlainRecord("other") }

\* Records that end the decoding: no varint can be read from the remaining
\* bytes ("badVarint"), the length exceeds the remaining bytes ("short"), the
\* bytes are no event message ("badProto").
TailInputs == {PlainRecord("badVarint"), PlainRecord("short"), PlainRecord("badProto")}

\* The build announces every named set once.
NamedSetsOnce(l) ==
    \A i, j \in 1..Len(l) :
        (i # j /\ l[i].kind = "namedSet" /\ l[j].kind = "namedSet") => l[i].id # l[j].id

LogInputs(maxEvents) ==
    LET whole == {l \in SeqsUpTo(EventInputs, maxEvents) : NamedSetsOnce(l)} IN
    whole \cup {l \o <<t>> : l \in whole, t \in TailInputs}

IdleBuild ==
    /\ bpc = "idle"
    /\ berr = NoErr
    /\ tmpExists = FALSE
    /\ blog = <<>>
    /\ logData = <<>>
    /\ setToFiles = <<>>
    /\ setToSets = <<>>
    /\ rootSets = <<>>
    /\ files = {}
    /\ visited = {}
    /\ rootIdx = 0
    /\ stack = <<>>
    /\ expanded = <<>>
    /\ bret = NotReturned
    /\ bmode = {}
    /\ baspect = ""

InitBuild ==
    /\ bpc = "tempfile"
    /\ berr = NoErr
    /\ tmpExists = FALSE
    /\ blog = <<>>
    /\ logData = <<>>
    /\ setToFiles = <<>>
    /\ setToSets = <<>>
    /\ rootSets = <<>>
    /\ files = {}
    /\ visited = {}
    /\ rootIdx = 0
    /\ stack = <<>>
    /\ expanded = <<>>
    /\ bret = NotReturned
    /\ bmode \in ModeInputs
    /\ baspect = ""

\* Mutant: the temporary file is left behind.
ReturnErrKeepFile(e) ==
    /\ bret' = [returned |-> TRUE, nilFiles |-> TRUE, files |-> <<>>, err |-> e]
    /\ bpc' = "done"
    /\ UNCHANGED tmpExists

\* return nil, e: the deferred os.Remove(logPath) runs once it is registered.
ReturnErr(e) ==
    /\ bret' = [returned |-> TRUE, nilFiles |-> TRUE, files |-> <<>>, err |-> e]
    /\ bpc' = "done"
    /\ tmpExists' = FALSE

\* logFile, err := ioutil.TempFile(...); logFile.Close(); defer os.Remove(logPath)
CreateTemp ==
    /\ bpc = "tempfile"
    /\ \/ /\ berr' = TempFileErr
          /\ ReturnErr(TempFileErr)
       \/ /\ berr' = NoErr
          /\ tmpExists' = TRUE
          /\ bpc' = "run"
          /\ UNCHANGED bret
    /\ UNCHANGED <<blog, logData, setToFiles, setToSets, rootSets, files, visited,
                   rootIdx, stack, expanded>>
    /\ UNCHANGED <<bmode, baspect>>
    /\ UNCHANGED <<patVars, pathVars, listVars, flagVars, fallbackVars, packageVars,
                   queryVars, xmlVars, wrapVars>>

\* cmd.Run() of the build subprocess.
RunBuild ==
    /\ bpc = "run"
    /\ \/ ReturnErr(BuildErr)
       \/ /\ bpc' = "read"
          /\ UNCHANGED <<tmpExists, bret>>
    /\ UNCHANGED <<berr, blog, logData, setToFiles, setToSets, rootSets, files, visited,
                   rootIdx, stack, expanded>>
    /\ baspect' = aspectName
    /\ UNCHANGED bmode
    /\ UNCHANGED <<patVars, pathVars, listVars, flagVars, fallbackVars, packageVars,
                   queryVars, xmlVars, wrapVars>>

\* logData, err := ioutil.ReadFile(logPath), and the maps made before the loop.
ReadLog ==
    /\ bpc = "read"
    /\ \/ /\ berr' = ReadErr
          /\ ReturnErr(ReadErr)
          /\ UNCHANGED <<blog, logData>>
       \/ /\ \E data \in LogInputs(MaxEvents) :
                /\ logData' = data
                /\ blog' = data
          /\ berr' = NoErr
          /\ bpc' = "decode"
          /\ UNCHANGED <<tmpExists, bret>>
    /\ UNCHANGED <<setToFiles, setToSets, rootSets, files, visited, rootIdx, stack,
                   expanded>>
    /\ UNCHANGED <<bmode, baspect>>
    /\ UNCHANGED <<patVars, pathVars, listVars, flagVars, fallbackVars, packageVars,
                   queryVars, xmlVars, wrapVars>>

\* One iteration of the loop for len(logData) > 0.
DecodeEvent ==
    /\ bpc = "decode"
    /\ logData # <<>>
    /\ LET ev == Head(logData) IN
       CASE ev.kind = "badVarint" ->
              \* size, n := proto.DecodeVarint(logData); if n == 0 { return nil, err }
              /\ ReturnErr(berr)
              /\ UNCHANGED <<logData, setToFiles, setToSets, rootSets>>
         [] ev.kind = "short" ->
              \* logData[:size] with size > len(logData): a run-time panic when
              \* size exceeds the capacity of the slice (the deferred os.Remove
              \* runs while the panic unwinds); within the capacity, Unmarshal
              \* is given bytes that are not of the log and fails.
              /\ \/ /\ bpc' = "panic"
                    /\ tmpExists' = FALSE
                    /\ UNCHANGED bret
                 \/ ReturnErr(UnmarshalErr)
              /\ UNCHANGED <<logData, setToFiles, setToSets, rootSets>>
         [] ev.kind = "badProto" ->
              /\ ReturnErr(UnmarshalErr)
              /\ UNCHANGED <<logData, setToFiles, setToSets, rootSets>>
         [] ev.kind = "completed" /\ ~AspectMatches(ev) ->
              /\ logData' = Tail(logData)
              /\ UNCHANGED <<bpc, tmpExists, bret, setToFiles, setToSets, rootSets>>
         [] ev.kind = "completed" /\ AspectMatches(ev) /\ ~ev.success ->
              /\ ReturnErr(TargetErr(ev.label))
              /\ logData' = Tail(logData)
              /\ UNCHANGED <<setToFiles, setToSets, rootSets>>
         [] ev.kind = "completed" /\ AspectMatches(ev) /\ ev.success ->
              /\ rootSets' = rootSets \o GroupRoots(ev.groups)
              /\ logData' = Tail(logData)
              /\ UNCHANGED <<bpc, tmpExists, bret, setToFiles, setToSets>>
         [] ev.kind = "namedSet" ->
              /\ setToFiles' = MapPut(setToFiles, ev.id, ev.files)
              /\ setToSets' = MapPut(setToSets, ev.id, ev.sets)
              /\ logData' = Tail(logData)
              /\ UNCHANGED <<bpc, tmpExists, bret, rootSets>>
         [] OTHER ->
              /\ logData' = Tail(logData)
              /\ UNCHANGED <<bpc, tmpExists, bret, setToFiles, setToSets, rootSets>>
    /\ UNCHANGED <<berr, blog, files, visited, rootIdx, stack, expanded>>
    /\ UNCHANGED <<bmode, baspect>>
    /\ UNCHANGED <<patVars, pathVars, listVars, flagVars, fallbackVars, packageVars,
                   queryVars, xmlVars, wrapVars>>

\* len(logData) == 0: the loop ends; files and visited are made.
DecodeDone ==
    /\ bpc = "decode"
    /\ logData = <<>>
    /\ bpc' = "visit"
    /\ files' = {}
    /\ visited' = {}
    /\ UNCHANGED <<berr, tmpExists, blog, logData, setToFiles, setToSets, rootSets,
                   rootIdx, stack, expanded, bret>>
    /\ UNCHANGED <<bmode, baspect>>
    /\ UNCHANGED <<patVars, pathVars, listVars, flagVars, fallbackVars, packageVars,
                   queryVars, xmlVars, wrapVars>>

\* for _, s := range rootSets { visit(s) }: the call for the next root.
VisitRoot ==
    /\ bpc = "visit"
    /\ stack = <<>>
    /\ rootIdx < Len(rootSets)
    /\ LET r == VisitCall(rootSets[rootIdx + 1], stack) IN
         /\ bpc' = r.pc
         /\ visited' = r.visited
         /\ files' = r.files
         /\ stack' = r.stack
         /\ expanded' = r.expanded
    /\ rootIdx' = rootIdx + 1
    /\ UNCHANGED <<berr, tmpExists, blog, logData, setToFiles, setToSets, rootSets, bret>>
    /\ UNCHANGED <<bmode, baspect>>
    /\ UNCHANGED <<patVars, pathVars, listVars, flagVars, fallbackVars, packageVars,
                   queryVars, xmlVars, wrapVars>>

\* for _, s := range setToSets[setId] { visit(s) }: the call for the next child
\* of the innermost active call.
VisitChild ==
    /\ bpc = "visit"
    /\ stack # <<>>
    /\ LET top == stack[Len(stack)]
           children == MapGet(setToSets, top.set)
       IN /\ top.i < Len(children)
          /\ LET r == VisitCall(children[top.i + 1],
                                [stack EXCEPT ![Len(stack)].i = top.i + 1])
             IN /\ bpc' = r.pc
                /\ visited' = r.visited
                /\ files' = r.files
                /\ stack' = r.stack
                /\ expanded' = r.expanded
    /\ UNCHANGED <<berr, tmpExists, blog, logData, setToFiles, setToSets, rootSets,
                   rootIdx, bret>>
    /\ UNCHANGED <<bmode, baspect>>
    /\ UNCHANGED <<patVars, pathVars, listVars, flagVars, fallbackVars, packageVars,
                   queryVars, xmlVars, wrapVars>>

\* The innermost active call of visit has gone through its children and returns.
VisitReturn ==
    /\ bpc = "visit"
    /\ stack # <<>>
    /\ stack[Len(stack)].i = Len(MapGet(setToSets, stack[Len(stack)].set))
    /\ stack' = SubSeq(stack, 1, Len(stack) - 1)
    /\ UNCHANGED <<bpc, berr, tmpExists, blog, logData, setToFiles, setToSets, rootSets,
                   files, visited, rootIdx, expanded, bret>>
    /\ UNCHANGED <<bmode, baspect>>
    /\ UNCHANGED <<patVars, pathVars, listVars, flagVars, fallbackVars, packageVars,
                   queryVars, xmlVars, wrapVars>>

\* sortedFiles from the keys of files; sort.Strings; return sortedFiles, nil
SortReturn ==
    /\ bpc = "visit"
    /\ stack = <<>>
    /\ rootIdx = Len(rootSets)
    /\ bret' = [returned |-> TRUE, nilFiles |-> FALSE, files |-> SortStrings(files),
                err |-> NoErr]
    /\ bpc' = "done"
    /\ tmpExists' = FALSE
    /\ UNCHANGED <<berr, blog, logData, setToFiles, setToSets, rootSets, files, visited,
                   rootIdx, stack, expanded>>
    /\ UNCHANGED <<bmode, baspect>>
    /\ UNCHANGED <<patVars, pathVars, listVars, flagVars, fallbackVars, packageVars,
                   queryVars, xmlVars, wrapVars>>

NextBuild ==
    \/ CreateTemp
    \/ RunBuild
    \/ ReadLog
    \/ DecodeEvent
    \/ DecodeDone
    \/ VisitRoot
    \/ VisitChild
    \/ VisitReturn
    \/ SortReturn

(***************************************************************************)
(* list (workspace mode)                                                   *)
(***************************************************************************)

\* parsePatterns as one call: the extractQueries loop over ps, started with
\* the lists in acc.
RECURSIVE parsePatternsFrom(_, _)
parsePatternsFrom(ps, acc) ==
    IF Len(ps) = 0 THEN acc
    ELSE LET c == Classify(Head(ps)) IN
         IF c.list = "panic" THEN [acc EXCEPT !.panic = TRUE]
         ELSE parsePatternsFrom(
                  Tail(ps),
                  IF c.list = "none" THEN acc
                  ELSE [acc EXCEPT ![c.list] = AppendTo(@, c.value)])

parsePatterns(ps) ==
    parsePatternsFrom(ps, [panic |-> FALSE, file |-> <<>>, rest |-> <<>>, stdlib |-> <<>>])

QueryErr == [kind |-> "QueryError", label |-> ""]
DirsErr == [kind |-> "BazelInfoError", label |-> ""]
GetwdErr == [kind |-> "GetwdError", label |-> ""]
LoadErr == [kind |-> "LoadError", label |-> ""]

\* driverResponse{} and "list has not returned".
EmptyResponse == [returned |-> TRUE, err |-> NoErr, Roots |-> <<>>, Packages |-> <<>>]
NoResponse == [returned |-> FALSE, err |-> NoErr, Roots |-> <<>>, Packages |-> <<>>]

NoDirs == [binDir |-> <<>>, workspaceDir |-> <<>>, execDir |-> <<>>]

\* Inputs: arguments, query results, build results and loaded descriptors.
MaxArgs == 1
MaxTargets == 2
MaxPkgs == 2

labelA == <<"/", "/", "a">>
labelB == <<"/", "/", "b">>

ArgInputs ==
    { labelA,
      sFile \o <<"=", "a">>,
      stdlibPrefix \o <<"f">>,
      <<"a", "b", "=">> }

TargetLists == SeqsUpTo({labelA, labelB}, MaxTargets)

BuiltFileLists == { <<>>, <<fileX>>, <<fileX, fileY>> }

PkgInputs ==
    {[ID |-> id, GoFiles |-> <<g>>, CompiledGoFiles |-> <<>>, OtherFiles |-> <<>>,
      ExportFile |-> <<>>] :
        id \in {"//a", "//b"}, g \in {<<"a">>, sExternal \o <<"a">>}}

InfoDirs ==
    [binDir |-> <<"/", "o">>, workspaceDir |-> <<"/", "w">>, execDir |-> <<"/", "e">>]

\* The directories the walk of getBazelDirs can start in, and the marker files
\* the file system can hold.
sWorkspace == <<"W", "O", "R", "K", "S", "P", "A", "C", "E">>
dirRoot == <<"/">>
dirA == <<"/", "a">>
dirAB == <<"/", "a", "/", "b">>
CwdInputs == {dirRoot, dirAB}
MarkerInputs == SUBSET {JoinPath(d, sWorkspace) : d \in {dirRoot, dirA, dirAB}}

\* strings.LastIndex(path, "/") + 1: the length of path up to its last separator.
RECURSIVE LastSlash(_)
LastSlash(path) ==
    IF Len(path) = 0 THEN 0
    ELSE IF path[Len(path)] = "/" THEN Len(path)
    ELSE LastSlash(SubSeq(path, 1, Len(path) - 1))

\* Mutant: the path is cut at its last separator and not cleaned.
DirOfUncleaned(path) == SubSeq(path, 1, LastSlash(path))

\* filepath.Dir: the path up to its last separator, cleaned.
DirOf(path) == CleanPath(SubSeq(path, 1, LastSlash(path)))

\* One entry of the record of the stages list has started.
Stage(name, failed) == [stage |-> name, failed |-> failed]

\* Mutant: the roots are the targets alone.
RootsOfTargetsOnly(targets, stdlib) == targets

\* Roots: append(targets, stdlibPatterns...)
RootsOf(targets, stdlib) == targets \o stdlib

\* The errors buildPkgFiles returns before, and after, its build subprocess
\* has run successfully.
BuildFailures == {TempFileErr, BuildErr}
DecodeFailures == {ReadErr, UnmarshalErr, TargetErr("//a")}

\* What listFallback returns: the empty response, or roots and their packages.
FallbackResults ==
    { EmptyResponse,
      [returned |-> TRUE, err |-> NoErr, Roots |-> <<"a">>,
       Packages |-> <<[ID |-> "a", GoFiles |-> <<>>, CompiledGoFiles |-> <<>>,
                       OtherFiles |-> <<>>, ExportFile |-> <<>>]>>] }

IdleList ==
    /\ lpc = "idle"
    /\ largs = <<>>
    /\ lcwd = <<>>
    /\ lfs = {}
    /\ ldir = <<>>
    /\ lstages = <<>>
    /\ ldirs = NoDirs
    /\ lfilesToQuery = <<>>
    /\ lpatterns = <<>>
    /\ lstdlib = <<>>
    /\ ltargets = <<>>
    /\ lfiles = <<>>
    /\ lloaded = <<>>
    /\ lpkgs = <<>>
    /\ lrange = <<>>
    /\ lidx = 0
    /\ lresp = NoResponse

InitList ==
    /\ lpc = "getwd"
    /\ largs \in SeqsUpTo(ArgInputs, MaxArgs)
    /\ lcwd \in CwdInputs
    /\ lfs \in MarkerInputs
    /\ ldir = <<>>
    /\ lstages = <<>>
    /\ ldirs = NoDirs
    /\ lfilesToQuery = <<>>
    /\ lpatterns = <<>>
    /\ lstdlib = <<>>
    /\ ltargets = <<>>
    /\ lfiles = <<>>
    /\ lloaded = <<>>
    /\ lpkgs = <<>>
    /\ lrange = <<>>
    /\ lidx = 0
    /\ lresp = NoResponse

\* return driverResponse{}, e
ListReturnErr(e) ==
    /\ lresp' = [EmptyResponse EXCEPT !.err = e]
    /\ lpc' = "done"

\* getBazelDirs: dir, err := os.Getwd()
ListGetwd ==
    /\ lpc = "getwd"
    /\ \/ /\ ListReturnErr(GetwdErr)
          /\ UNCHANGED ldir
       \/ /\ ldir' = lcwd
          /\ lpc' = "walk"
          /\ UNCHANGED lresp
    /\ UNCHANGED <<largs, lcwd, lfs, lstages, ldirs, lfilesToQuery, lpatterns, lstdlib,
                   ltargets, lfiles, lloaded, lpkgs, lrange, lidx>>
    /\ UNCHANGED <<patVars, pathVars, buildVars, flagVars, fallbackVars, packageVars,
                   queryVars, xmlVars, wrapVars>>

\* getBazelDirs: one iteration of the upward walk. The marker is found (the
\* walk breaks with workspaceDir = dir), or dir is its own parent (the error
\* noWorkspaceError, on which list calls listFallback), or the walk moves up.
ListFindWorkspace ==
    /\ lpc = "walk"
    /\ IF JoinPath(ldir, sWorkspace) \in lfs
       THEN /\ ldirs' = [ldirs EXCEPT !.workspaceDir = ldir]
            /\ lpc' = "info"
            /\ UNCHANGED ldir
       ELSE IF DirOf(ldir) = ldir
       THEN /\ lpc' = "fallback"
            /\ UNCHANGED <<ldir, ldirs>>
       ELSE /\ ldir' = DirOf(ldir)
            /\ UNCHANGED <<lpc, ldirs>>
    /\ UNCHANGED <<largs, lcwd, lfs, lstages, lfilesToQuery, lpatterns, lstdlib,
                   ltargets, lfiles, lloaded, lpkgs, lrange, lidx, lresp>>
    /\ UNCHANGED <<patVars, pathVars, buildVars, flagVars, fallbackVars, packageVars,
                   queryVars, xmlVars, wrapVars>>

\* getBazelDirs: the "bazel info" subprocess and the scan of its output, then
\* binDir, workspaceDir, execDir, err := getBazelDirs() in list.
ListGetBazelDirs ==
    /\ lpc = "info"
    /\ \/ /\ ListReturnErr(DirsErr)
          /\ UNCHANGED ldirs
       \/ /\ ldirs' = [InfoDirs EXCEPT !.workspaceDir = ldirs.workspaceDir]
          /\ lpc' = "parse"
          /\ UNCHANGED lresp
    /\ lstages' = Append(lstages, Stage("info", lpc' = "done"))
    /\ UNCHANGED <<largs, lcwd, lfs, ldir, lfilesToQuery, lpatterns, lstdlib, ltargets,
                   lfiles, lloaded, lpkgs, lrange, lidx>>
    /\ UNCHANGED <<patVars, pathVars, buildVars, flagVars, fallbackVars, packageVars,
                   queryVars, xmlVars, wrapVars>>

\* return listFallback(request, args): the native loader decides the result.
ListFallback ==
    /\ lpc = "fallback"
    /\ lresp' \in FallbackResults
    /\ lstages' = Append(lstages, Stage("nativeLoad", FALSE))
    /\ lpc' = "done"
    /\ UNCHANGED <<largs, lcwd, lfs, ldir, ldirs, lfilesToQuery, lpatterns, lstdlib,
                   ltargets, lfiles, lloaded, lpkgs, lrange, lidx>>
    /\ UNCHANGED <<patVars, pathVars, buildVars, flagVars, fallbackVars, packageVars,
                   queryVars, xmlVars, wrapVars>>

\* filesToQuery, patterns, stdlibPatterns := parsePatterns(os.Args[1:])
ListParsePatterns ==
    /\ lpc = "parse"
    /\ LET r == parsePatterns(largs) IN
         IF r.panic
         THEN /\ lpc' = "panic"
              /\ UNCHANGED <<lfilesToQuery, lpatterns, lstdlib>>
         ELSE /\ lfilesToQuery' = r.file
              /\ lpatterns' = r.rest
              /\ lstdlib' = r.stdlib
              /\ lpc' = "query"
    /\ UNCHANGED <<largs, lcwd, lfs, ldir, lstages, ldirs, ltargets, lfiles, lloaded,
                   lpkgs, lrange, lidx, lresp>>
    /\ UNCHANGED <<patVars, pathVars, buildVars, flagVars, fallbackVars, packageVars,
                   queryVars, xmlVars, wrapVars>>

\* targets, err := queryTargets(...): the query subprocess decides the result.
ListQueryTargets ==
    /\ lpc = "query"
    /\ \/ /\ ListReturnErr(QueryErr)
          /\ UNCHANGED ltargets
       \/ /\ ltargets' \in TargetLists
          /\ lpc' = "build"
          /\ UNCHANGED lresp
    /\ lstages' = Append(lstages, Stage("query", lpc' = "done"))
    /\ UNCHANGED <<largs, lcwd, lfs, ldir, ldirs, lfilesToQuery, lpatterns, lstdlib,
                   lfiles, lloaded, lpkgs, lrange, lidx>>
    /\ UNCHANGED <<patVars, pathVars, buildVars, flagVars, fallbackVars, packageVars,
                   queryVars, xmlVars, wrapVars>>

\* files, err := buildPkgFiles(...), then files[i] = filepath.Join(binDir, files[i]).
\* buildPkgFiles fails before or in its build subprocess, or while it reads and
\* decodes the event log, or returns the files. When no length can be read from
\* the log it returns nil files with the nil error of the read before; when a
\* length exceeds the rest of the log it can panic.
ListBuildPkgFiles ==
    /\ lpc = "build"
    /\ \/ /\ \E e \in BuildFailures : ListReturnErr(e)
          /\ lstages' = Append(lstages, Stage("build", TRUE))
          /\ UNCHANGED lfiles
       \/ /\ \E e \in DecodeFailures : ListReturnErr(e)
          /\ lstages' = lstages \o <<Stage("build", FALSE), Stage("decode", TRUE)>>
          /\ UNCHANGED lfiles
       \/ /\ lfiles' = <<>>
          /\ lstages' = lstages \o <<Stage("build", FALSE), Stage("decode", TRUE)>>
          /\ lpc' = "load"
          /\ UNCHANGED lresp
       \/ /\ lpc' = "panic"
          /\ lstages' = lstages \o <<Stage("build", FALSE), Stage("decode", TRUE)>>
          /\ UNCHANGED <<lfiles, lresp>>
       \/ /\ \E built \in BuiltFileLists :
                lfiles' = [i \in 1..Len(built) |-> JoinPath(ldirs.binDir, built[i])]
          /\ lstages' = lstages \o <<Stage("build", FALSE), Stage("decode", FALSE)>>
          /\ lpc' = "load"
          /\ UNCHANGED lresp
    /\ UNCHANGED <<largs, lcwd, lfs, ldir, ldirs, lfilesToQuery, lpatterns, lstdlib,
                   ltargets, lloaded, lpkgs, lrange, lidx>>
    /\ UNCHANGED <<patVars, pathVars, buildVars, flagVars, fallbackVars, packageVars,
                   queryVars, xmlVars, wrapVars>>

\* pkgs, err := loadPkgFiles(files): one descriptor per file, or those of a
\* directory; then the loop "for _, pkg := range pkgs" starts on pkgs as it is.
ListLoadPkgFiles ==
    /\ lpc = "load"
    /\ \/ /\ lfiles # <<>>
          /\ ListReturnErr(LoadErr)
          /\ UNCHANGED <<lloaded, lpkgs, lrange>>
       \/ /\ \E loaded \in SeqsUpTo(PkgInputs, MaxPkgs) :
                /\ lfiles = <<>> => loaded = <<>>
                /\ lloaded' = loaded
                /\ lpkgs' = loaded
                /\ lrange' = loaded
          /\ lpc' = "loop"
          /\ UNCHANGED lresp
    /\ lstages' = Append(lstages, Stage("load", lpc' = "done"))
    /\ UNCHANGED <<largs, lcwd, lfs, ldir, ldirs, lfilesToQuery, lpatterns, lstdlib,
                   ltargets, lfiles, lidx>>
    /\ UNCHANGED <<patVars, pathVars, buildVars, flagVars, fallbackVars, packageVars,
                   queryVars, xmlVars, wrapVars>>

\* The loop body, for the element at position i, rewritten to p by absPkgPaths:
\* the element is rewritten in place (pkg is a pointer) and appended to pkgs.
LoopBody(ps, i, p) == Append([ps EXCEPT ![i] = p], p)

\* for _, pkg := range pkgs { absPkgPaths(pkg, ...); pkgs = append(pkgs, pkg) }:
\* one iteration; the range expression was evaluated once, before the loop.
ListLoopStep ==
    /\ lpc = "loop"
    /\ lidx < Len(lrange)
    /\ lpkgs' = LoopBody(lpkgs, lidx + 1,
                         absPkgPaths(lrange[lidx + 1], ldirs.workspaceDir, ldirs.execDir))
    /\ lidx' = lidx + 1
    /\ UNCHANGED <<lpc, largs, lcwd, lfs, ldir, lstages, ldirs, lfilesToQuery, lpatterns,
                   lstdlib, ltargets, lfiles, lloaded, lrange, lresp>>
    /\ UNCHANGED <<patVars, pathVars, buildVars, flagVars, fallbackVars, packageVars,
                   queryVars, xmlVars, wrapVars>>

\* resp := driverResponse{Roots: append(targets, stdlibPatterns...), Packages: pkgs}
ListReturn ==
    /\ lpc = "loop"
    /\ lidx = Len(lrange)
    /\ lresp' = [returned |-> TRUE, err |-> NoErr, Roots |-> RootsOf(ltargets, lstdlib),
                 Packages |-> lpkgs]
    /\ lpc' = "done"
    /\ UNCHANGED <<largs, lcwd, lfs, ldir, lstages, ldirs, lfilesToQuery, lpatterns,
                   lstdlib, ltargets, lfiles, lloaded, lpkgs, lrange, lidx>>
    /\ UNCHANGED <<patVars, pathVars, buildVars, flagVars, fallbackVars, packageVars,
                   queryVars, xmlVars, wrapVars>>

NextList ==
    \/ ListGetwd
    \/ ListFindWorkspace
    \/ ListGetBazelDirs
    \/ ListFallback
    \/ ListParsePatterns
    \/ ListQueryTargets
    \/ ListBuildPkgFiles
    \/ ListLoadPkgFiles
    \/ ListLoopStep
    \/ ListReturn

(***************************************************************************)
(* list of the flag-driven driver: flags and aspect name                   *)
(***************************************************************************)

sTrue == <<"t", "r", "u", "e">>
sFalse == <<"f", "a", "l", "s", "e">>
sDeps == <<"d", "e", "p", "s">>
sExport == <<"e", "x", "p", "o", "r", "t">>
sTest == <<"t", "e", "s", "t">>
sBuildflag == <<"b", "u", "i", "l", "d", "f", "l", "a", "g">>

\* The boolean flags list registers on its flag set.
BoolFlags == {sTest, sExport, sDeps}

\* strconv.ParseBool on the value of -name=value.
ParseBool(v) == IF v = sTrue THEN "true" ELSE IF v = sFalse THEN "false" ELSE "error"

\* The flags after setting the boolean flag name to b.
SetBool(st, name, b) ==
    CASE name = sDeps -> [st EXCEPT !.deps = b]
      [] name = sExport -> [st EXCEPT !.export = b]
      [] name = sTest -> [st EXCEPT !.test = b]

\* fs.Parse, one argument: parsing stops at the first argument that is no
\* flag and after "--"; a flag is -name, --name, -name=value or --name=value;
\* a boolean flag without value is set to true; -buildflag without =value
\* takes the next argument; an unknown flag, a bad value or a missing value
\* end the program (flag.ExitOnError).
ParseOne(st) ==
    LET args == st.rest
        a == Head(args)
        minuses == IF Len(a) >= 2 /\ a[2] = "-" THEN 2 ELSE 1
        body == SubSeq(a, minuses + 1, Len(a))
        eq == Index(body, "=")
        name == IF eq < 0 THEN body ELSE SubSeq(body, 1, eq)
        hasValue == eq >= 0
        value == IF eq < 0 THEN <<>> ELSE SubSeq(body, eq + 2, Len(body))
        next == [st EXCEPT !.rest = Tail(args)]
    IN
    IF Len(args) = 0 THEN [st EXCEPT !.status = "stop"]
    ELSE IF Len(a) < 2 \/ a[1] # "-" THEN [st EXCEPT !.status = "stop"]
    ELSE IF a = <<"-", "-">> THEN [next EXCEPT !.status = "stop"]
    ELSE IF Len(body) = 0 \/ body[1] = "-" \/ body[1] = "=" THEN [next EXCEPT !.status = "exit"]
    ELSE IF name \in BoolFlags
    THEN IF ~hasValue THEN SetBool(next, name, TRUE)
         ELSE IF ParseBool(value) = "error" THEN [next EXCEPT !.status = "exit"]
         ELSE SetBool(next, name, ParseBool(value) = "true")
    ELSE IF name = sBuildflag
    THEN IF hasValue THEN [next EXCEPT !.flags = Append(@, value)]
         ELSE IF Len(next.rest) > 0
         THEN [next EXCEPT !.flags = Append(@, Head(next.rest)), !.rest = Tail(next.rest)]
         ELSE [next EXCEPT !.status = "exit"]
    ELSE [next EXCEPT !.status = "exit"]

\* Mutant: the export token is written before the deps token.
AspectNameOfExportFirst(deps, export, test) ==
    aspectFileName \o "%gopackagesdriver_" \o (IF export THEN "export_" ELSE "")
        \o (IF deps THEN "deps_" ELSE "") \o (IF test THEN "test_" ELSE "") \o "aspect"

\* The strings.Builder writes of buildPkgFiles(needDeps, needExport, needTest, ...).
AspectNameOf(deps, export, test) ==
    aspectFileName \o "%gopackagesdriver_" \o (IF deps THEN "deps_" ELSE "")
        \o (IF export THEN "export_" ELSE "") \o (IF test THEN "test_" ELSE "") \o "aspect"

\* The aspects aspect.bzl defines, with the arguments of _define_aspect.
BzlAspects ==
    { [name |-> "gopackagesdriver_aspect", deps |-> FALSE, export |-> FALSE, test |-> FALSE],
      [name |-> "gopackagesdriver_test_aspect", deps |-> FALSE, export |-> FALSE, test |-> TRUE],
      [name |-> "gopackagesdriver_export_aspect", deps |-> FALSE, export |-> TRUE, test |-> FALSE],
      [name |-> "gopackagesdriver_export_test_aspect", deps |-> FALSE, export |-> TRUE,
       test |-> TRUE],
      [name |-> "gopackagesdriver_deps_aspect", deps |-> TRUE, export |-> FALSE, test |-> FALSE],
      [name |-> "gopackagesdriver_deps_test_aspect", deps |-> TRUE, export |-> FALSE,
       test |-> TRUE],
      [name |-> "gopackagesdriver_deps_export_aspect", deps |-> TRUE, export |-> TRUE,
       test |-> FALSE],
      [name |-> "gopackagesdriver_deps_export_test_aspect", deps |-> TRUE, export |-> TRUE,
       test |-> TRUE] }

MaxFlagArgs == 2

FlagArgInputs ==
    { <<"-">> \o sDeps,
      <<"-", "-">> \o sExport,
      <<"-">> \o sTest,
      <<"-">> \o sDeps \o <<"=">> \o sFalse,
      <<"-">> \o sTest \o <<"=">> \o sTrue,
      <<"-">> \o sBuildflag,
      <<"-", "-">>,
      <<"-", "x">>,
      labelA }

IdleFlags ==
    /\ fpc = "idle"
    /\ fargs = <<>>
    /\ frest = <<>>
    /\ needDeps = FALSE
    /\ needExport = FALSE
    /\ needTests = FALSE
    /\ buildFlags = <<>>
    /\ faspect = ""

\* var needTests, needExport, needDeps bool; var buildFlags multiFlag
InitFlags ==
    /\ fpc = "parse"
    /\ fargs \in SeqsUpTo(FlagArgInputs, MaxFlagArgs)
    /\ frest = fargs
    /\ needDeps = FALSE
    /\ needExport = FALSE
    /\ needTests = FALSE
    /\ buildFlags = <<>>
    /\ faspect = ""

\* fs.Parse(args): one round of its loop. patterns := fs.Args() is what is left.
FlagsParseStep ==
    /\ fpc = "parse"
    /\ LET st == ParseOne([rest |-> frest, deps |-> needDeps, export |-> needExport,
                          test |-> needTests, flags |-> buildFlags, status |-> "more"])
       IN /\ frest' = st.rest
          /\ needDeps' = st.deps
          /\ needExport' = st.export
          /\ needTests' = st.test
          /\ buildFlags' = st.flags
          /\ fpc' = CASE st.status = "more" -> "parse"
                      [] st.status = "stop" -> "resolve"
                      [] st.status = "exit" -> "exit"
    /\ UNCHANGED <<fargs, faspect>>
    /\ UNCHANGED <<patVars, pathVars, buildVars, listVars, fallbackVars, packageVars,
                   queryVars, xmlVars, wrapVars>>

\* getBazelDirs and queryTargets: list returns through listFallback or with an
\* error, or goes on to buildPkgFiles.
FlagsResolve ==
    /\ fpc = "resolve"
    /\ fpc' \in {"done", "build"}
    /\ UNCHANGED <<fargs, frest, needDeps, needExport, needTests, buildFlags, faspect>>
    /\ UNCHANGED <<patVars, pathVars, buildVars, listVars, fallbackVars, packageVars,
                   queryVars, xmlVars, wrapVars>>

\* buildPkgFiles(needDeps, needExport, needTests, buildFlags, targets) up to
\* the start of its build subprocess.
FlagsBuild ==
    /\ fpc = "build"
    /\ \/ UNCHANGED faspect       \* ioutil.TempFile failed
       \/ faspect' = AspectNameOf(needDeps, needExport, needTests)
    /\ fpc' = "done"
    /\ UNCHANGED <<fargs, frest, needDeps, needExport, needTests, buildFlags>>
    /\ UNCHANGED <<patVars, pathVars, buildVars, listVars, fallbackVars, packageVars,
                   queryVars, xmlVars, wrapVars>>

NextFlags ==
    \/ FlagsParseStep
    \/ FlagsResolve
    \/ FlagsBuild

(***************************************************************************)
(* listFallback                                                            *)
(***************************************************************************)

\* The packages the native loader can return (pointers; the ID of a package
\* is its name here), and the import graphs over them.
Pkgs == {"p1", "p2", "p3"}
RootPkgs == {"p1", "p2"}
MaxRoots == 2

GraphInputs == [Pkgs -> SUBSET Pkgs]

\* Mutant: the loader error is returned to the caller.
FallbackErrResponsePropagated == [EmptyResponse EXCEPT !.err = LoadErr]

\* if err != nil { return driverResponse{}, nil }
FallbackErrResponse == EmptyResponse

\* Mutant: no import is followed.
ImportsOfNone(g, p) == {}

\* pkg.Imports, a map: its range yields the imported packages in any order.
ImportsOf(g, p) == g[p]

\* visit(p) up to its loop: nothing when p was seen; otherwise p is marked,
\* appended to resp.Packages and its call becomes the active one.
FallbackVisit(p, stk) ==
    IF p \in kseen
    THEN /\ kstack' = stk
         /\ UNCHANGED <<kseen, kresp>>
    ELSE /\ kseen' = kseen \cup {p}
         /\ kresp' = [kresp EXCEPT !.Packages = Append(@, p)]
         /\ kstack' = Append(stk, [pkg |-> p, todo |-> ImportsOf(kgraph, p)])

IdleFallback ==
    /\ kpc = "idle"
    /\ kloadErr = FALSE
    /\ kgraph = <<>>
    /\ kroots = <<>>
    /\ kridx = 0
    /\ kseen = {}
    /\ kstack = <<>>
    /\ kresp = NoResponse

InitFallback ==
    /\ kpc = "load"
    /\ kloadErr = FALSE
    /\ kgraph = <<>>
    /\ kroots = <<>>
    /\ kridx = 0
    /\ kseen = {}
    /\ kstack = <<>>
    /\ kresp = NoResponse

\* roots, err := packages.Load(cfg, patterns...)
FallbackLoad ==
    /\ kpc = "load"
    /\ \/ /\ kloadErr' = TRUE
          /\ kresp' = FallbackErrResponse
          /\ kpc' = "done"
          /\ UNCHANGED <<kgraph, kroots>>
       \/ /\ kgraph' \in GraphInputs
          /\ kroots' \in SeqsUpTo(RootPkgs, MaxRoots)
          /\ kpc' = "roots"
          /\ UNCHANGED <<kloadErr, kresp>>
    /\ UNCHANGED <<kridx, kseen, kstack>>
    /\ UNCHANGED <<patVars, pathVars, buildVars, listVars, flagVars, packageVars,
                   queryVars, xmlVars, wrapVars>>

\* for _, pkg := range roots { resp.Roots = append(resp.Roots, pkg.ID); visit(pkg) }
FallbackRoot ==
    /\ kpc = "roots"
    /\ kstack = <<>>
    /\ kridx < Len(kroots)
    /\ kridx' = kridx + 1
    /\ LET p == kroots[kridx + 1] IN
         IF p \in kseen
         THEN /\ kresp' = [kresp EXCEPT !.Roots = Append(@, p)]
              /\ UNCHANGED <<kseen, kstack>>
         ELSE /\ kseen' = kseen \cup {p}
              /\ kresp' = [kresp EXCEPT !.Roots = Append(@, p), !.Packages = Append(@, p)]
              /\ kstack' = <<[pkg |-> p, todo |-> ImportsOf(kgraph, p)]>>
    /\ UNCHANGED <<kpc, kloadErr, kgraph, kroots>>
    /\ UNCHANGED <<patVars, pathVars, buildVars, listVars, flagVars, packageVars,
                   queryVars, xmlVars, wrapVars>>

\* for _, ipkg := range pkg.Imports { visit(ipkg) }: one iteration in the
\* active call.
FallbackVisitImport ==
    /\ kpc = "roots"
    /\ Len(kstack) > 0
    /\ LET top == kstack[Len(kstack)] IN
         /\ top.todo # {}
         /\ \E ipkg \in top.todo :
               FallbackVisit(ipkg, [kstack EXCEPT ![Len(kstack)].todo = @ \ {ipkg}])
    /\ UNCHANGED <<kpc, kloadErr, kgraph, kroots, kridx>>
    /\ UNCHANGED <<patVars, pathVars, buildVars, listVars, flagVars, packageVars,
                   queryVars, xmlVars, wrapVars>>

\* The active call of visit has ranged over all its imports and returns.
FallbackVisitReturn ==
    /\ kpc = "roots"
    /\ Len(kstack) > 0
    /\ kstack[Len(kstack)].todo = {}
    /\ kstack' = SubSeq(kstack, 1, Len(kstack) - 1)
    /\ UNCHANGED <<kpc, kloadErr, kgraph, kroots, kridx, kseen, kresp>>
    /\ UNCHANGED <<patVars, pathVars, buildVars, listVars, flagVars, packageVars,
                   queryVars, xmlVars, wrapVars>>

\* return resp, nil
FallbackReturn ==
    /\ kpc = "roots"
    /\ kstack = <<>>
    /\ kridx = Len(kroots)
    /\ kresp' = [kresp EXCEPT !.returned = TRUE]
    /\ kpc' = "done"
    /\ UNCHANGED <<kloadErr, kgraph, kroots, kridx, kseen, kstack>>
    /\ UNCHANGED <<patVars, pathVars, buildVars, listVars, flagVars, packageVars,
                   queryVars, xmlVars, wrapVars>>

NextFallback ==
    \/ FallbackLoad
    \/ FallbackRoot
    \/ FallbackVisitImport
    \/ FallbackVisitReturn
    \/ FallbackReturn

(***************************************************************************)
(* buildPackage                                                            *)
(***************************************************************************)

sUnderTest == <<"_", "t", "e", "s", "t">>
sEmptyName == <<"e", "m", "p", "t", "y">>
sFoo == <<"f", "o", "o">>
sOff == "off"
sOnly == "only"
sExclude == "exclude"

\* strings.HasSuffix
HasSuffix(str, suffix) ==
    /\ Len(str) >= Len(suffix)
    /\ SubSeq(str, Len(str) - Len(suffix) + 1, Len(str)) = suffix

\* Mutant: "exclude" filters as "only" does.
PassesTestFilterExcludeAsOnly(name, m) ==
    CASE name = sOff -> TRUE
      [] name = sOnly -> HasSuffix(m.pkg, sUnderTest)
      [] name = sExclude -> HasSuffix(m.pkg, sUnderTest)

\* The function testfilterFromString returns for name, applied to m.
PassesTestFilter(name, m) ==
    CASE name = sOff -> TRUE
      [] name = sOnly -> HasSuffix(m.pkg, sUnderTest)
      [] name = sExclude -> ~HasSuffix(m.pkg, sUnderTest)

\* testfilterFromString: the names that have a filter.
TestFilterNames == {sOff, sOnly, sExclude}

\* Mutant: every kept file sets the name.
NameAfterLast(name, pkgName) == pkgName

\* if pkg.Name == "" { pkg.Name = m.pkg }
NameAfter(name, pkgName) == IF name = <<>> THEN pkgName ELSE name

\* Inputs: compiled sources with the metadata readGoMetadata finds (an error,
\* or whether the build constraints matched and the declared package name).
MaxSrcs == 2

SrcNames == {"a.go", "a_test.go"}
PkgNames == {sFoo, sFoo \o sUnderTest, <<"t", "e", "s", "t">>}

\* The import lists readGoMetadata can find, and the -arc tables: label and
\* import path of each direct dependency, in flag order.
ImportLists == {<<>>, <<"fmt">>, <<"dep", "fmt">>}
ArcInputs ==
    { <<>>,
      <<[label |-> "//d", importPath |-> "dep"]>>,
      <<[label |-> "//d1", importPath |-> "dep"], [label |-> "//d2", importPath |-> "dep"]>> }

SrcInputs ==
    {[src |-> n, err |-> TRUE, matched |-> FALSE, pkg |-> <<>>, imports |-> <<>>] :
        n \in SrcNames}
    \cup {[src |-> n, err |-> FALSE, matched |-> FALSE, pkg |-> sFoo,
           imports |-> <<"dep", "fmt">>] : n \in SrcNames}
    \cup {[src |-> n, err |-> FALSE, matched |-> TRUE, pkg |-> pn, imports |-> il] :
             n \in SrcNames, pn \in PkgNames, il \in ImportLists}

\* errors.New("-id not set") and the like: label is the flag the error names.
FlagErr(flagName) == [kind |-> "FlagError", label |-> flagName]
EnvErr == [kind |-> "EnvFlagError", label |-> ""]
FilterErr == [kind |-> "InvalidTestFilter", label |-> ""]
MetadataErr == [kind |-> "MetadataError", label |-> ""]
StdLoadErr == [kind |-> "StdlibLoadError", label |-> ""]
WriteErr == [kind |-> "WriteError", label |-> ""]

\* The string flags before flags.Parse, and the values it can give them.
NoFlags == [id |-> "", importPath |-> "", importMap |-> "", outPath |-> "", goExe |-> ""]
PkgFlagInputs ==
    [id : {"", "//a"}, importPath : {"", "a"}, importMap : {"", "a"},
     outPath : {"", "o.json"}, goExe : {""}]
StdlibFlagInputs ==
    [id : {""}, importPath : {""}, importMap : {""}, outPath : {"", "out"},
     goExe : {"", "go"}]

\* The command lines of the subcommand pkg: every required flag given, with
\* any filter, dependencies and sources; or some required flag not given.
PackageArgInputs(maxSrcs) ==
    [fl : {f \in PkgFlagInputs : \A k \in {"id", "importPath", "importMap", "outPath"} :
                                     f[k] # ""},
     filter : TestFilterNames \cup {"bogus"},
     arcs : ArcInputs,
     srcs : SeqsUpTo(SrcInputs, maxSrcs)]
    \cup
    [fl : {f \in PkgFlagInputs : \E k \in {"id", "importPath", "importMap", "outPath"} :
                                     f[k] = ""},
     filter : {sOff, "bogus"},
     arcs : {<<>>},
     srcs : {<<>>}]

\* Mutant: -importmap is tested before -id.
MissingPkgFlagMapFirst(fl) ==
    IF fl.importMap = "" THEN "-importmap"
    ELSE IF fl.id = "" THEN "-id"
    ELSE IF fl.importPath = "" THEN "-importpath"
    ELSE IF fl.outPath = "" THEN "-o"
    ELSE ""

\* The tests of buildPackage on its required flags, in their order: the flag
\* of the first error, "" when there is none.
MissingPkgFlag(fl) ==
    IF fl.id = "" THEN "-id"
    ELSE IF fl.importPath = "" THEN "-importpath"
    ELSE IF fl.importMap = "" THEN "-importmap"
    ELSE IF fl.outPath = "" THEN "-o"
    ELSE ""

\* The tests of buildStdlibPackages on its required flags.
MissingStdlibFlag(fl) ==
    IF fl.goExe = "" THEN "-go"
    ELSE IF fl.outPath = "" THEN "-o"
    ELSE ""

\* importPathToLabel after the loop over archives: a later -arc of the same
\* import path replaces the earlier one.
RECURSIVE importPathToLabelOf(_, _)
importPathToLabelOf(arcs, m) ==
    IF Len(arcs) = 0 THEN m
    ELSE importPathToLabelOf(Tail(arcs), MapPut(m, Head(arcs).importPath, Head(arcs).label))

stdlibPkgId(importPath) == "@io_bazel_rules_go//:stdlib%" \o importPath

\* Mutant: every import gets the standard-library placeholder.
PlaceholderIDStdlibOnly(table, imp) == stdlibPkgId(imp)

\* The ID of the placeholder package of the import path imp.
PlaceholderID(table, imp) ==
    IF imp \in DOMAIN table THEN table[imp] ELSE stdlibPkgId(imp)

\* for _, imp := range m.imports { pkg.Imports[imp] = &packages.Package{ID: ...} }
RECURSIVE AddImports(_, _, _)
AddImports(m, table, imps) ==
    IF Len(imps) = 0 THEN m
    ELSE AddImports(MapPut(m, Head(imps), PlaceholderID(table, Head(imps))), table, Tail(imps))

NoPackage == [Name |-> <<>>, CompiledGoFiles |-> <<>>, Imports |-> <<>>]
NotWritten == [returned |-> FALSE, created |-> FALSE, written |-> FALSE, err |-> NoErr]

IdlePackage ==
    /\ qpc = "idle"
    /\ qcmd = ""
    /\ qflags = NoFlags
    /\ testfilterName = ""
    /\ archives = <<>>
    /\ goSrcs = <<>>
    /\ qidx = 0
    /\ qpkg = NoPackage
    /\ qret = NotWritten

\* main: the subcommand pkg or the subcommand stdlib; no flag is parsed yet.
InitPackage ==
    /\ qcmd \in {"pkg", "stdlib"}
    /\ qpc = "flags"
    /\ qflags = NoFlags
    /\ testfilterName = ""
    /\ archives = <<>>
    /\ goSrcs = <<>>
    /\ qidx = 0
    /\ qpkg = NoPackage
    /\ qret = NotWritten

\* return e
PackageReturnErr(e) ==
    /\ qret' = [returned |-> TRUE, created |-> FALSE, written |-> FALSE, err |-> e]
    /\ qpc' = "done"

\* writeJsonFile: the file is written; or MkdirAll or os.Create fails; or the
\* file is created and encoding or closing it fails.
WriteJsonFile ==
    \/ qret' = [returned |-> TRUE, created |-> TRUE, written |-> TRUE, err |-> NoErr]
    \/ qret' = [returned |-> TRUE, created |-> FALSE, written |-> FALSE, err |-> WriteErr]
    \/ qret' = [returned |-> TRUE, created |-> TRUE, written |-> FALSE, err |-> WriteErr]

\* buildPackage: flags.Parse gives the flags their values, goenv.checkFlags,
\* the tests of the required flags, then testfilterFromString(testfilterName).
PackageFlags ==
    /\ qpc = "flags"
    /\ qcmd = "pkg"
    /\ \E in \in PackageArgInputs(MaxSrcs) :
          /\ qflags' = in.fl
          /\ testfilterName' = in.filter
          /\ archives' = in.arcs
          /\ goSrcs' = in.srcs
          /\ \/ PackageReturnErr(EnvErr)
             \/ /\ MissingPkgFlag(in.fl) # ""
                /\ PackageReturnErr(FlagErr(MissingPkgFlag(in.fl)))
             \/ /\ MissingPkgFlag(in.fl) = ""
                /\ in.filter \notin TestFilterNames
                /\ PackageReturnErr(FilterErr)
             \/ /\ MissingPkgFlag(in.fl) = ""
                /\ in.filter \in TestFilterNames
                /\ qpc' = "orig"
                /\ UNCHANGED qret
    /\ UNCHANGED <<qcmd, qidx, qpkg>>
    /\ UNCHANGED <<patVars, pathVars, buildVars, listVars, flagVars, fallbackVars,
                   queryVars, xmlVars, wrapVars>>

\* buildStdlibPackages: flags.Parse, goenv.checkFlags and the tests of the
\* required flags.
StdlibFlags ==
    /\ qpc = "flags"
    /\ qcmd = "stdlib"
    /\ \E fl \in StdlibFlagInputs :
          /\ qflags' = fl
          /\ \/ PackageReturnErr(EnvErr)
             \/ /\ MissingStdlibFlag(fl) # ""
                /\ PackageReturnErr(FlagErr(MissingStdlibFlag(fl)))
             \/ /\ MissingStdlibFlag(fl) = ""
                /\ qpc' = "stdload"
                /\ UNCHANGED qret
    /\ UNCHANGED <<qcmd, testfilterName, archives, goSrcs, qidx, qpkg>>
    /\ UNCHANGED <<patVars, pathVars, buildVars, listVars, flagVars, fallbackVars,
                   queryVars, xmlVars, wrapVars>>

\* buildStdlibPackages: packages.Load(cfg, "std") and the loop that writes one
\* file per package.
StdlibLoadWrite ==
    /\ qpc = "stdload"
    /\ \/ PackageReturnErr(StdLoadErr)
       \/ /\ WriteJsonFile
          /\ qpc' = "done"
    /\ UNCHANGED <<qcmd, qflags, testfilterName, archives, goSrcs, qidx, qpkg>>
    /\ UNCHANGED <<patVars, pathVars, buildVars, listVars, flagVars, fallbackVars,
                   queryVars, xmlVars, wrapVars>>

\* The loops over origSrcs and otherSrcs: readGoMetadata fails on one of the
\* files, or GoFiles and OtherFiles are filled.
PackageOrigOther ==
    /\ qpc = "orig"
    /\ \/ PackageReturnErr(MetadataErr)
       \/ /\ qpc' = "compiled"
          /\ UNCHANGED qret
    /\ UNCHANGED <<qcmd, qflags, testfilterName, archives, goSrcs, qidx, qpkg>>
    /\ UNCHANGED <<patVars, pathVars, buildVars, listVars, flagVars, fallbackVars,
                   queryVars, xmlVars, wrapVars>>

\* for _, src := range goSrcs: one iteration.
PackageCompiledStep ==
    /\ qpc = "compiled"
    /\ qidx < Len(goSrcs)
    /\ LET m == goSrcs[qidx + 1] IN
         IF m.err
         THEN /\ PackageReturnErr(MetadataErr)
              /\ UNCHANGED <<qidx, qpkg>>
         ELSE IF ~m.matched \/ ~PassesTestFilter(testfilterName, m)
         THEN /\ qidx' = qidx + 1
              /\ UNCHANGED <<qpc, qpkg, qret>>
         ELSE /\ qidx' = qidx + 1
              /\ qpkg' = [Name |-> NameAfter(qpkg.Name, m.pkg),
                          CompiledGoFiles |-> Append(qpkg.CompiledGoFiles, m.src),
                          Imports |-> AddImports(qpkg.Imports,
                                                 importPathToLabelOf(archives, <<>>),
                                                 m.imports)]
              /\ UNCHANGED <<qpc, qret>>
    /\ UNCHANGED <<qcmd, qflags, testfilterName, archives, goSrcs>>
    /\ UNCHANGED <<patVars, pathVars, buildVars, listVars, flagVars, fallbackVars,
                   queryVars, xmlVars, wrapVars>>

\* if pkg.Name == "" { pkg.Name = "empty" }; return writeJsonFile(pkg, outPath)
PackageWrite ==
    /\ qpc = "compiled"
    /\ qidx = Len(goSrcs)
    /\ qpkg' = [qpkg EXCEPT !.Name = IF @ = <<>> THEN sEmptyName ELSE @]
    /\ WriteJsonFile
    /\ qpc' = "done"
    /\ UNCHANGED <<qcmd, qflags, testfilterName, archives, goSrcs, qidx>>
    /\ UNCHANGED <<patVars, pathVars, buildVars, listVars, flagVars, fallbackVars,
                   queryVars, xmlVars, wrapVars>>

NextPackage ==
    \/ PackageFlags
    \/ StdlibFlags
    \/ StdlibLoadWrite
    \/ PackageOrigOther
    \/ PackageCompiledStep
    \/ PackageWrite

(***************************************************************************)
(* queryTargets                                                            *)
(***************************************************************************)

\* The longest standard output of the query subprocess the model tries.
MaxOutput == 4

CR == "\r"
LF == "\n"

\* The bytes of the output: bytes of a label, carriage return, newline.
OutputBytes == {"/", "a", CR, LF}
OutputInputs(maxOutput) == SeqsUpTo(OutputBytes, maxOutput)

\* if len(target) > 0 && target[len(target)-1] == '\r' { target = target[:len(target)-1] }
TrimCR(target) ==
    IF Len(target) > 0 /\ target[Len(target)] = CR
    THEN SubSeq(target, 1, Len(target) - 1)
    ELSE target

NotQueried == [returned |-> FALSE, targets |-> <<>>, err |-> NoErr]

IdleQuery ==
    /\ tpc = "idle"
    /\ tbuf = <<>>
    /\ tdata = <<>>
    /\ ttargets = <<>>
    /\ tret = NotQueried

\* queryTargets is called; the subprocess has not run yet.
InitQuery ==
    /\ tpc = "run"
    /\ tbuf = <<>>
    /\ tdata = <<>>
    /\ ttargets = <<>>
    /\ tret = NotQueried

\* cmd.Run(): the subprocess fails, or leaves its standard output in buf;
\* data := buf.Bytes().
QueryRun ==
    /\ tpc = "run"
    /\ \/ /\ tret' = [returned |-> TRUE, targets |-> <<>>, err |-> QueryErr]
          /\ tpc' = "done"
          /\ UNCHANGED <<tbuf, tdata>>
       \/ /\ tbuf' \in OutputInputs(MaxOutput)
          /\ tdata' = tbuf'
          /\ tpc' = "loop"
          /\ UNCHANGED tret
    /\ UNCHANGED ttargets
    /\ UNCHANGED <<patVars, pathVars, buildVars, listVars, flagVars, fallbackVars,
                   packageVars, xmlVars, wrapVars>>

\* One iteration of "for i >= 0": the bytes before the first newline of data
\* are a target, data goes on after that newline.
QueryLoopStep ==
    /\ tpc = "loop"
    /\ Index(tdata, LF) >= 0
    /\ LET i == Index(tdata, LF)
           target == SubSeq(tdata, 1, i)
       IN /\ tdata' = SubSeq(tdata, i + 2, Len(tdata))
          /\ ttargets' = Append(ttargets, TrimCR(target))
    /\ UNCHANGED <<tpc, tbuf, tret>>
    /\ UNCHANGED <<patVars, pathVars, buildVars, listVars, flagVars, fallbackVars,
                   packageVars, xmlVars, wrapVars>>

\* data holds no newline: return targets, nil
QueryReturn ==
    /\ tpc = "loop"
    /\ Index(tdata, LF) < 0
    /\ tret' = [returned |-> TRUE, targets |-> ttargets, err |-> NoErr]
    /\ tpc' = "done"
    /\ UNCHANGED <<tbuf, tdata, ttargets>>
    /\ UNCHANGED <<patVars, pathVars, buildVars, listVars, flagVars, fallbackVars,
                   packageVars, xmlVars, wrapVars>>

NextQuery ==
    \/ QueryRun
    \/ QueryLoopStep
    \/ QueryReturn

(***************************************************************************)
(* testwrapper: handleJSONEvent and toXML                                  *)
(***************************************************************************)

\* The most events the ingester is given.
MaxTestEvents == 3

\* Test of an event: empty for an event of the package, or the name of a test.
TestNames == {<<>>, <<"A">>, <<"B">>}

\* Action of an event, as the converter encodes it.
EventActions == {"run", "output", "skip", "fail", "pass", "pause"}

TestEventInputs == [Action : EventActions, Test : TestNames]

\* Elapsed of an event: the converter sets it on the events that end a test.
ElapsedOf(e) == IF e.Action \in {"skip", "fail", "pass"} THEN "elapsed" ELSE "nil"

\* &testCase{}
NewTestCase == [state |-> "", output |-> 0, duration |-> "nil"]

\* testSuite.named for a name that is not empty: the map with the test case of
\* that name in it.
Named(m, name) == IF name \in DOMAIN m THEN m ELSE MapPut(m, name, NewTestCase)

\* The switch of handleJSONEvent on tests.byName; output is the number of
\* strings written to the builder.
HandleByName(m, e) ==
    IF e.Action \notin {"run", "output", "skip", "fail", "pass"} \/ e.Test = <<>>
    THEN m
    ELSE LET m1 == Named(m, e.Test)
             c == m1[e.Test]
             c1 == CASE e.Action = "run" -> [c EXCEPT !.state = e.Action]
                     [] e.Action = "output" -> [c EXCEPT !.output = @ + 1]
                     [] e.Action = "skip" ->
                            [c EXCEPT !.output = @ + 1, !.state = e.Action,
                                      !.duration = ElapsedOf(e)]
                     [] OTHER ->
                            [c EXCEPT !.state = e.Action, !.duration = ElapsedOf(e)]
         IN MapPut(m1, e.Test, c1)

\* The switch of handleJSONEvent on tests.duration.
HandleDuration(d, e) ==
    IF e.Action \in {"fail", "pass"} /\ e.Test = <<>> THEN ElapsedOf(e) ELSE d

\* Mutant: a test that has only started counts as passed.
CaseMessageRunAsPass(state) ==
    CASE state = "skip" -> "skipped"
      [] state = "fail" -> "failure"
      [] state \in {"pass", "run"} -> "none"
      [] OTHER -> "error"

\* switch c.state of toXML: the message the test case gets.
CaseMessage(state) ==
    CASE state = "skip" -> "skipped"
      [] state = "fail" -> "failure"
      [] state = "pass" -> "none"
      [] OTHER -> "error"

\* toXML: the suite, one test case per key of the map in sort.Strings order.
ToXML(d, m) ==
    LET cases == SortStrings(DOMAIN m)
        count(kind) ==
            Cardinality({k \in 1..Len(cases) : CaseMessage(m[cases[k]].state) = kind})
    IN [Time |-> d,
        Tests |-> Len(cases),
        Errors |-> count("error"),
        Failures |-> count("failure"),
        Skipped |-> count("skipped"),
        TestCases |-> [k \in 1..Len(cases) |->
                          [Name |-> cases[k],
                           Time |-> m[cases[k]].duration,
                           Message |-> CaseMessage(m[cases[k]].state)]]]

NoReport ==
    [Time |-> "nil", Tests |-> 0, Errors |-> 0, Failures |-> 0, Skipped |-> 0,
     TestCases |-> <<>>]

IdleXml ==
    /\ xpc = "idle"
    /\ xevents = <<>>
    /\ byName = <<>>
    /\ suiteDuration = "nil"
    /\ xreport = NoReport

\* newIngester: no event yet, an empty map.
InitXml ==
    /\ xpc = "ingest"
    /\ xevents = <<>>
    /\ byName = <<>>
    /\ suiteDuration = "nil"
    /\ xreport = NoReport

\* handleJSONEvent(e)
XmlHandleJSONEvent ==
    /\ xpc = "ingest"
    /\ Len(xevents) < MaxTestEvents
    /\ \E e \in TestEventInputs :
          /\ xevents' = Append(xevents, e)
          /\ byName' = HandleByName(byName, e)
          /\ suiteDuration' = HandleDuration(suiteDuration, e)
    /\ UNCHANGED <<xpc, xreport>>
    /\ UNCHANGED <<patVars, pathVars, buildVars, listVars, flagVars, fallbackVars,
                   packageVars, queryVars, wrapVars>>

\* writeXML: toXML(tests.name, tests.duration, tests.byName)
XmlToXML ==
    /\ xpc = "ingest"
    /\ xreport' = ToXML(suiteDuration, byName)
    /\ xpc' = "done"
    /\ UNCHANGED <<xevents, byName, suiteDuration>>
    /\ UNCHANGED <<patVars, pathVars, buildVars, listVars, flagVars, fallbackVars,
                   packageVars, queryVars, wrapVars>>

NextXml ==
    \/ XmlHandleJSONEvent
    \/ XmlToXML

(***************************************************************************)
(* testwrapper: shouldWrap and wrap                                        *)
(*                                                                         *)
(* wrap runs the test binary again as a child process. The child's output  *)
(* goes through ingester.Write to the converter, which writes events into  *)
(* a pipe; the goroutine decodeJSONEvents reads the pipe and hands every   *)
(* event to handleJSONEvent. The converter is known by the calls wrap.go   *)
(* makes of it: Write may hold events back, Close writes what is held.     *)
(***************************************************************************)

\* The most events the child's output gives rise to.
MaxWrites == 2

sGoTestWrap == "GO_TEST_WRAP"
sXmlOutputFile == "XML_OUTPUT_FILE"

\* The values of GO_TEST_WRAP and of XML_OUTPUT_FILE the model tries.
WrapValues == {"", "0", "1", "true", "false", "T", "F", "yes"}
XmlValues == {"", "path"}

\* The environment of the process: the two variables, each set or not.
EnvInputs ==
    {w \o x :
        w \in {<<>>} \cup {<<[key |-> sGoTestWrap, value |-> v]>> : v \in WrapValues},
        x \in {<<>>} \cup {<<[key |-> sXmlOutputFile, value |-> v]>> : v \in XmlValues}}

\* os.LookupEnv on an environment that holds a key at most once.
LookupEnv(env, key) ==
    IF \E k \in 1..Len(env) : env[k].key = key
    THEN [ok |-> TRUE, value |-> env[CHOOSE k \in 1..Len(env) : env[k].key = key].value]
    ELSE [ok |-> FALSE, value |-> ""]

\* strconv.ParseBool, on the Go string str
ParseBoolString(str) ==
    IF str \in {"1", "t", "T", "TRUE", "true", "True"}
    THEN [value |-> TRUE, err |-> FALSE]
    ELSE IF str \in {"0", "f", "F", "FALSE", "false", "False"}
    THEN [value |-> FALSE, err |-> FALSE]
    ELSE [value |-> FALSE, err |-> TRUE]

BoolName(b) == IF b THEN "true" ELSE "false"

\* Mutant: XML_OUTPUT_FILE is looked up first.
shouldWrapXMLFirst(env) ==
    IF LookupEnv(env, sXmlOutputFile).ok THEN "true"
    ELSE LET wrapEnv == LookupEnv(env, sGoTestWrap)
         IN IF ~wrapEnv.ok THEN "false"
            ELSE IF ParseBoolString(wrapEnv.value).err THEN "fatal"
            ELSE BoolName(ParseBoolString(wrapEnv.value).value)

\* shouldWrap: "true", "false", or "fatal" when log.Fatalf ends the process.
shouldWrap(env) ==
    LET wrapEnv == LookupEnv(env, sGoTestWrap)
    IN IF wrapEnv.ok
       THEN IF ParseBoolString(wrapEnv.value).err THEN "fatal"
            ELSE BoolName(ParseBoolString(wrapEnv.value).value)
       ELSE BoolName(LookupEnv(env, sXmlOutputFile).ok)

\* What os/exec makes of cmd.Env: of the entries of one key the last is used.
RECURSIVE DedupEnv(_)
DedupEnv(env) ==
    IF env = <<>> THEN <<>>
    ELSE IF \E k \in 2..Len(env) : env[k].key = env[1].key
    THEN DedupEnv(Tail(env))
    ELSE <<env[1]>> \o DedupEnv(Tail(env))

\* cmd.Env = append(os.Environ(), "GO_TEST_WRAP=0")
ChildEnv(env) == DedupEnv(Append(env, [key |-> sGoTestWrap, value |-> "0"]))

IdleWrap ==
    /\ wpc = "idle"
    /\ wenv = <<>>
    /\ wverbose = FALSE
    /\ wshould = "none"
    /\ cpc = "none"
    /\ cshould = "none"
    /\ wsent = 0
    /\ convBuf = 0
    /\ pipePending = FALSE
    /\ pipeClosed = FALSE
    /\ dpc = "none"
    /\ handled = 0
    /\ wprinted = -1
    /\ wlost = 0
    /\ wxml = -1

\* The test binary starts, with some environment and arguments.
InitWrap ==
    /\ wpc = "main"
    /\ wenv \in EnvInputs
    /\ wverbose \in BOOLEAN
    /\ wshould = "none"
    /\ cpc = "none"
    /\ cshould = "none"
    /\ wsent = 0
    /\ convBuf = 0
    /\ pipePending = FALSE
    /\ pipeClosed = FALSE
    /\ dpc = "none"
    /\ handled = 0
    /\ wprinted = -1
    /\ wlost = 0
    /\ wxml = -1

\* shouldWrap() in the process: it wraps, runs its tests itself, or exits.
WrapShouldWrap ==
    /\ wpc = "main"
    /\ wshould' = shouldWrap(wenv)
    /\ wpc' = CASE wshould' = "fatal" -> "fatal"
                [] wshould' = "true" -> "wrap"
                [] OTHER -> "direct"
    /\ UNCHANGED <<wenv, wverbose, cpc, cshould, wsent, convBuf, pipePending,
                   pipeClosed, dpc, handled, wprinted, wlost, wxml>>
    /\ UNCHANGED <<patVars, pathVars, buildVars, listVars, flagVars, fallbackVars,
                   packageVars, queryVars, xmlVars>>

\* wrap up to the start of cmd.Run(): newIngester makes the pipe and starts
\* decodeJSONEvents, the child is started with GO_TEST_WRAP=0 appended.
WrapStart ==
    /\ wpc = "wrap"
    /\ wpc' = "run"
    /\ dpc' = "read"
    /\ cpc' = "started"
    /\ UNCHANGED <<wenv, wverbose, wshould, cshould, wsent, convBuf, pipePending,
                   pipeClosed, handled, wprinted, wlost, wxml>>
    /\ UNCHANGED <<patVars, pathVars, buildVars, listVars, flagVars, fallbackVars,
                   packageVars, queryVars, xmlVars>>

\* shouldWrap() in the child, on the environment wrap gave it.
ChildShouldWrap ==
    /\ cpc = "started"
    /\ cshould' = shouldWrap(ChildEnv(wenv))
    /\ cpc' = CASE cshould' = "fatal" -> "fatal"
                [] cshould' = "true" -> "wrap"
                [] OTHER -> "tests"
    /\ UNCHANGED <<wpc, wenv, wverbose, wshould, wsent, convBuf, pipePending,
                   pipeClosed, dpc, handled, wprinted, wlost, wxml>>
    /\ UNCHANGED <<patVars, pathVars, buildVars, listVars, flagVars, fallbackVars,
                   packageVars, queryVars, xmlVars>>

\* ingester.Write(p) with output of the child: the converter takes it.
IngesterWrite ==
    /\ cpc = "tests"
    /\ ~pipePending
    /\ wsent < MaxWrites
    /\ wsent' = wsent + 1
    /\ convBuf' = convBuf + 1
    /\ UNCHANGED <<wpc, wenv, wverbose, wshould, cpc, cshould, pipePending,
                   pipeClosed, dpc, handled, wprinted, wlost, wxml>>
    /\ UNCHANGED <<patVars, pathVars, buildVars, listVars, flagVars, fallbackVars,
                   packageVars, queryVars, xmlVars>>

\* Within ingester.Write, the converter writes an event it holds into the
\* pipe; the Write of the pipe waits for the reader.
ConverterEmit ==
    /\ cpc = "tests"
    /\ ~pipePending
    /\ convBuf > 0
    /\ convBuf' = convBuf - 1
    /\ pipePending' = TRUE
    /\ UNCHANGED <<wpc, wenv, wverbose, wshould, cpc, cshould, wsent, pipeClosed,
                   dpc, handled, wprinted, wlost, wxml>>
    /\ UNCHANGED <<patVars, pathVars, buildVars, listVars, flagVars, fallbackVars,
                   packageVars, queryVars, xmlVars>>

\* dec.Decode(&e) reads the event from the pipe; the Write of the pipe returns.
DecoderRead ==
    /\ dpc = "read"
    /\ pipePending
    /\ pipePending' = FALSE
    /\ dpc' = "handle"
    /\ UNCHANGED <<wpc, wenv, wverbose, wshould, cpc, cshould, wsent, convBuf,
                   pipeClosed, handled, wprinted, wlost, wxml>>
    /\ UNCHANGED <<patVars, pathVars, buildVars, listVars, flagVars, fallbackVars,
                   packageVars, queryVars, xmlVars>>

\* i.handleJSONEvent(&e) in decodeJSONEvents.
DecoderHandle ==
    /\ dpc = "handle"
    /\ handled' = handled + 1
    /\ dpc' = "read"
    /\ UNCHANGED <<wpc, wenv, wverbose, wshould, cpc, cshould, wsent, convBuf,
                   pipePending, pipeClosed, wprinted, wlost, wxml>>
    /\ UNCHANGED <<patVars, pathVars, buildVars, listVars, flagVars, fallbackVars,
                   packageVars, queryVars, xmlVars>>

\* dec.Decode(&e) returns io.EOF: the writer of the pipe is closed.
DecoderEOF ==
    /\ dpc = "read"
    /\ pipeClosed
    /\ dpc' = "exit"
    /\ UNCHANGED <<wpc, wenv, wverbose, wshould, cpc, cshould, wsent, convBuf,
                   pipePending, pipeClosed, handled, wprinted, wlost, wxml>>
    /\ UNCHANGED <<patVars, pathVars, buildVars, listVars, flagVars, fallbackVars,
                   packageVars, queryVars, xmlVars>>

\* cmd.Run() returns: the child has exited and every Write of its output has
\* returned.
CmdRunReturn ==
    /\ wpc = "run"
    /\ cpc = "tests"
    /\ ~pipePending
    /\ cpc' = "exited"
    /\ wpc' = "closeW"
    /\ UNCHANGED <<wenv, wverbose, wshould, cshould, wsent, convBuf, pipePending,
                   pipeClosed, dpc, handled, wprinted, wlost, wxml>>
    /\ UNCHANGED <<patVars, pathVars, buildVars, listVars, flagVars, fallbackVars,
                   packageVars, queryVars, xmlVars>>

\* ingester.Close: for _, c := range i.closers { c.Close() } closes the writer
\* of the pipe.
IngesterCloseWriter ==
    /\ wpc = "closeW"
    /\ pipeClosed' = TRUE
    /\ wpc' = IF wverbose THEN "closeConv" ELSE "closeRead"
    /\ UNCHANGED <<wenv, wverbose, wshould, cpc, cshould, wsent, convBuf,
                   pipePending, dpc, handled, wprinted, wlost, wxml>>
    /\ UNCHANGED <<patVars, pathVars, buildVars, listVars, flagVars, fallbackVars,
                   packageVars, queryVars, xmlVars>>

\* ingester.Close: the loop over i.tests.events, on the events that are there.
IngesterCloseRead ==
    /\ wpc = "closeRead"
    /\ wprinted' = handled
    /\ wpc' = "closeConv"
    /\ UNCHANGED <<wenv, wverbose, wshould, cpc, cshould, wsent, convBuf,
                   pipePending, pipeClosed, dpc, handled, wlost, wxml>>
    /\ UNCHANGED <<patVars, pathVars, buildVars, listVars, flagVars, fallbackVars,
                   packageVars, queryVars, xmlVars>>

\* ingester.Close: i.converter.Close() writes what the converter holds; the
\* writer of the pipe is closed, its Write fails and the events go nowhere.
IngesterCloseConverter ==
    /\ wpc = "closeConv"
    /\ wlost' = IF pipeClosed THEN wlost + convBuf ELSE wlost
    /\ convBuf' = 0
    /\ wpc' = "xml"
    /\ UNCHANGED <<wenv, wverbose, wshould, cpc, cshould, wsent, pipePending,
                   pipeClosed, dpc, handled, wprinted, wxml>>
    /\ UNCHANGED <<patVars, pathVars, buildVars, listVars, flagVars, fallbackVars,
                   packageVars, queryVars, xmlVars>>

\* wrap after ingester.Close(): writeXML when XML_OUTPUT_FILE is set, on the
\* test cases that are there.
WrapWriteXML ==
    /\ wpc = "xml"
    /\ wxml' = IF LookupEnv(wenv, sXmlOutputFile).ok THEN handled ELSE wxml
    /\ wpc' = "done"
    /\ UNCHANGED <<wenv, wverbose, wshould, cpc, cshould, wsent, convBuf,
                   pipePending, pipeClosed, dpc, handled, wprinted, wlost>>
    /\ UNCHANGED <<patVars, pathVars, buildVars, listVars, flagVars, fallbackVars,
                   packageVars, queryVars, xmlVars>>

NextWrap ==
    \/ WrapShouldWrap
    \/ WrapStart
    \/ ChildShouldWrap
    \/ IngesterWrite
    \/ ConverterEmit
    \/ DecoderRead
    \/ DecoderHandle
    \/ DecoderEOF
    \/ CmdRunReturn
    \/ IngesterCloseWriter
    \/ IngesterCloseRead
    \/ IngesterCloseConverter
    \/ WrapWriteXML

(***************************************************************************)
(* Specifications                                                          *)
(***************************************************************************)

\* parsePatterns alone.
PatternsInit == InitPatterns /\ IdlePaths /\ IdleBuild /\ IdleList /\ IdleFlags /\ IdleFallback
    /\ IdlePackage /\ IdleQuery /\ IdleXml /\ IdleWrap
SpecPatterns == PatternsInit /\ [][NextPatterns]_vars

\* absPkgPaths alone.
PathsInit == InitPaths /\ IdlePatterns /\ IdleBuild /\ IdleList /\ IdleFlags /\ IdleFallback
    /\ IdlePackage /\ IdleQuery /\ IdleXml /\ IdleWrap
SpecPaths == PathsInit /\ [][NextPaths]_vars

\* buildPkgFiles alone. The function runs on one goroutine, which takes the
\* next step of the traversal whenever it has one.
VisitStep == VisitRoot \/ VisitChild \/ VisitReturn \/ SortReturn
BuildInit == InitBuild /\ IdlePatterns /\ IdlePaths /\ IdleList /\ IdleFlags /\ IdleFallback
    /\ IdlePackage /\ IdleQuery /\ IdleXml /\ IdleWrap
SpecBuild == BuildInit /\ [][NextBuild]_vars /\ WF_vars(VisitStep)

\* list of the flag-driven driver, from its call to the start of its build.
FlagsInit == InitFlags /\ IdlePatterns /\ IdlePaths /\ IdleBuild /\ IdleList /\ IdleFallback
    /\ IdlePackage /\ IdleQuery /\ IdleXml /\ IdleWrap
SpecFlags == FlagsInit /\ [][NextFlags]_vars

\* listFallback alone. The function runs on one goroutine, which takes its
\* next step whenever it has one.
FallbackStep == FallbackRoot \/ FallbackVisitImport \/ FallbackVisitReturn \/ FallbackReturn
FallbackInit ==
    InitFallback /\ IdlePatterns /\ IdlePaths /\ IdleBuild /\ IdleList /\ IdleFlags
        /\ IdlePackage /\ IdleQuery /\ IdleXml /\ IdleWrap
SpecFallback == FallbackInit /\ [][NextFallback]_vars /\ WF_vars(FallbackStep)

\* buildPackage alone.
PackageInit ==
    InitPackage /\ IdlePatterns /\ IdlePaths /\ IdleBuild /\ IdleList /\ IdleFlags
        /\ IdleFallback /\ IdleQuery /\ IdleXml /\ IdleWrap
SpecPackage == PackageInit /\ [][NextPackage]_vars

\* list, from its call to its return.
ListInit == InitList /\ IdlePatterns /\ IdlePaths /\ IdleBuild /\ IdleFlags /\ IdleFallback
    /\ IdlePackage /\ IdleQuery /\ IdleXml /\ IdleWrap
Spec == ListInit /\ [][NextList]_vars

\* queryTargets alone.
QueryInit ==
    InitQuery /\ IdlePatterns /\ IdlePaths /\ IdleBuild /\ IdleList /\ IdleFlags
        /\ IdleFallback /\ IdlePackage /\ IdleXml /\ IdleWrap
SpecQuery == QueryInit /\ [][NextQuery]_vars

\* handleJSONEvent and toXML of the testwrapper, on one goroutine.
XmlInit ==
    InitXml /\ IdlePatterns /\ IdlePaths /\ IdleBuild /\ IdleList /\ IdleFlags
        /\ IdleFallback /\ IdlePackage /\ IdleQuery /\ IdleWrap
SpecXml == XmlInit /\ [][NextXml]_vars

\* The test binary from its start: shouldWrap, and wrap with the child process,
\* the copy of its output and the goroutine decodeJSONEvents interleaved.
WrapInit ==
    InitWrap /\ IdlePatterns /\ IdlePaths /\ IdleBuild /\ IdleList /\ IdleFlags
        /\ IdleFallback /\ IdlePackage /\ IdleQuery /\ IdleXml
SpecWrap == WrapInit /\ [][NextWrap]_vars

(***************************************************************************)
(* Claims about parsePatterns                                              *)
(***************************************************************************)

LowerLetters ==
    {"a", "b", "c", "d", "e", "f", "g", "h", "i", "j", "k", "l", "m", "n",
     "o", "p", "q", "r", "s", "t", "u", "v", "w", "x", "y", "z"}

\* The part of p before its first "=" (all of p when it has none).
WordBeforeEq(p) ==
    IF \E k \in 1..Len(p) : p[k] = "="
    THEN SubSeq(p, 1, (CHOOSE k \in 1..Len(p) :
                          p[k] = "=" /\ \A j \in 1..(k - 1) : p[j] # "=") - 1)
    ELSE p

HasEq(p) == \E k \in 1..Len(p) : p[k] = "="

\* Input position i contributed exactly one entry, to list l, with value v.
ContributesOnly(i, l, v) ==
    LET out == [file |-> containFiles, rest |-> restPatterns, stdlib |-> stdlibPatterns] IN
    /\ Cardinality({k \in 1..Len(psrc[l]) : psrc[l][k] = i}) = 1
    /\ \A k \in 1..Len(psrc[l]) : psrc[l][k] = i => out[l][k] = v
    /\ \A m \in {"file", "rest", "stdlib"} \ {l} :
          \A k \in 1..Len(psrc[m]) : psrc[m][k] # i

SrcMatchesLists ==
    /\ Len(psrc.file) = Len(containFiles)
    /\ Len(psrc.rest) = Len(restPatterns)
    /\ Len(psrc.stdlib) = Len(stdlibPatterns)

\* C3: when parsePatterns returns, every pattern file=X has put exactly X
\* (everything after the first "=") into the file-containment list and nothing
\* into the ordinary-pattern list or the stdlib-pattern list.
C3_FileQueryValue ==
    ppc = "returned" =>
        /\ SrcMatchesLists
        /\ \A i \in 1..Len(patterns) :
              HasPrefix(patterns[i], sFile \o <<"=">>) =>
                  ContributesOnly(i, "file", SubSeq(patterns[i], 6, Len(patterns[i])))

\* C3 witness: a returned run over two patterns, one of them file=a=b.
C3_Witness ==
    /\ ppc = "returned"
    /\ Len(patterns) = 2
    /\ patterns[2] = sFile \o <<"=", "a", "=", "b">>
    /\ patterns[1] = <<"a", "b">>
    /\ containFiles = << <<"a", "=", "b">> >>

\* A pattern whose first "=" follows a non-empty all-lowercase word that is
\* none of file, pattern and the legacy sentinel.
UnknownReservedQuery(p) ==
    /\ HasEq(p)
    /\ WordBeforeEq(p) # <<>>
    /\ \A j \in 1..Len(WordBeforeEq(p)) : WordBeforeEq(p)[j] \in LowerLetters
    /\ WordBeforeEq(p) \notin {sFile, sPattern, sLegacy}

\* C4: parsePatterns ends in its panic (and returns nothing) exactly when some
\* pattern is an unknown reserved query; no other pattern shape is an error.
C4_PanicIffUnknownQuery ==
    ppc \in {"returned", "panic"} =>
        ((ppc = "panic") <=>
            \E i \in 1..Len(patterns) : UnknownReservedQuery(patterns[i]))

\* C4 witness: the panic on files=..., after a pattern that was classified.
C4_Witness ==
    /\ ppc = "panic"
    /\ Len(patterns) = 2
    /\ patterns[1] = sFile \o <<"=">>
    /\ patterns[2] = sFile \o <<"s", "=">>

\* A pattern with no "=", an empty query word, or a query word with a
\* character outside a-z.
NotAQuery(p) ==
    \/ ~HasEq(p)
    \/ WordBeforeEq(p) = <<>>
    \/ \E j \in 1..Len(WordBeforeEq(p)) : WordBeforeEq(p)[j] \notin LowerLetters

\* C5: when parsePatterns returns, every such pattern has put its whole
\* original string into the stdlib-pattern list if it starts with the stdlib
\* prefix and into the ordinary-pattern list otherwise, and into no other list.
C5_WholePatternByPrefix ==
    ppc = "returned" =>
        /\ SrcMatchesLists
        /\ \A i \in 1..Len(patterns) :
              NotAQuery(patterns[i]) =>
                  ContributesOnly(
                      i,
                      IF HasPrefix(patterns[i], stdlibPrefix) THEN "stdlib" ELSE "rest",
                      patterns[i])

\* C5 witness: a stdlib pattern carrying "=" and a pattern with an empty
\* query word, both classified by their whole string.
C5_Witness ==
    /\ ppc = "returned"
    /\ Len(patterns) = 2
    /\ patterns[1] = stdlibPrefix \o <<"f", "=", "a", "=", "b">>
    /\ patterns[2] = <<"=", "a", "=", "b">>
    /\ stdlibPatterns = <<patterns[1]>>
    /\ restPatterns = <<patterns[2]>>

StrictlyIncreasing(s) == \A j, k \in 1..Len(s) : j < k => s[j] < s[k]

\* C6: in each of the three lists the entries stand in the order of the input
\* patterns they come from, and no input pattern has more than one entry in
\* the three lists together.
C6_InputOrderKept ==
    /\ SrcMatchesLists
    /\ StrictlyIncreasing(psrc.file)
    /\ StrictlyIncreasing(psrc.rest)
    /\ StrictlyIncreasing(psrc.stdlib)
    /\ \A i \in 1..Len(patterns) :
          Cardinality({l \in {"file", "rest", "stdlib"} :
                          \E k \in 1..Len(psrc[l]) : psrc[l][k] = i}) <= 1
    /\ \A l \in {"file", "rest", "stdlib"} :
          \A k \in 1..Len(psrc[l]) : psrc[l][k] \in 1..pidx

\* C6 witness: two patterns that went to the same list, in input order.
C6_Witness ==
    /\ ppc = "returned"
    /\ Len(patterns) = 2
    /\ patterns[1] = sPattern \o <<"=", "a", "=", "b">>
    /\ patterns[2] = <<"a", ".", "b">>
    /\ restPatterns = << <<"a", "=", "b">>, <<"a", ".", "b">> >>

(***************************************************************************)
(* Claims about absPkgPaths                                                *)
(***************************************************************************)

\* The rule of the claim for one path.
RuleOfC2(path) ==
    IF HasPrefix(path, sExternal) THEN JoinPath(execDir, path)
    ELSE IF path # <<>> /\ path[1] = "/" THEN path
    ELSE JoinPath(workspaceDir, path)

ListByRule(new, old) ==
    /\ Len(new) = Len(old)
    /\ \A i \in 1..Len(old) : new[i] = RuleOfC2(old[i])

\* C2: after absPkgPaths every entry of GoFiles, CompiledGoFiles and
\* OtherFiles and a non-empty ExportFile is the rule's image of what it was
\* (external/ under the execution root, absolute unchanged, the rest under the
\* workspace root), and an empty ExportFile is still empty.
C2_PathsByOneRule ==
    apc = "done" =>
        /\ ListByRule(pkg.GoFiles, pkg0.GoFiles)
        /\ ListByRule(pkg.CompiledGoFiles, pkg0.CompiledGoFiles)
        /\ ListByRule(pkg.OtherFiles, pkg0.OtherFiles)
        /\ pkg.ExportFile =
              IF pkg0.ExportFile = <<>> THEN <<>> ELSE RuleOfC2(pkg0.ExportFile)
        /\ pkg.ID = pkg0.ID

\* C2 witness: external/a, the absolute /./../b, the relative ./../b and the
\* path externala (which does not start with "external/") after the rewrite.
C2_Witness ==
    /\ apc = "done"
    /\ pkg0.GoFiles = << sExternal \o <<"a">> >>
    /\ pkg.GoFiles = << <<"/", "e", "/", "e", "x", "t", "e", "r", "n", "a", "l", "/", "a">> >>
    /\ pkg0.CompiledGoFiles = << <<"/", ".", "/", ".", ".", "/", "b">> >>
    /\ pkg.CompiledGoFiles = pkg0.CompiledGoFiles
    /\ pkg0.OtherFiles = <<>>
    /\ pkg0.ExportFile = <<"e", "x", "t", "e", "r", "n", "a", "l", "a">>
    /\ pkg.ExportFile = <<"/", "w", "/", "e", "x", "t", "e", "r", "n", "a", "l", "a">>

(***************************************************************************)
(* Claims about buildPkgFiles                                              *)
(***************************************************************************)

\* The log holds only records that decode.
Decodable(l) == \A i \in 1..Len(l) : l[i].kind \in {"completed", "namedSet", "other"}

\* Positions of the target-completed events of the synthesized aspect that do
\* not report success.
FailedTargets(l) ==
    {i \in 1..Len(l) :
        l[i].kind = "completed" /\ l[i].aspect = aspectName /\ ~l[i].success}

\* The root set identifiers of a log: those of the gopackagesdriver output
\* groups of its successful target-completed events of the synthesized aspect.
RootIds(l) ==
    UNION {UNION {Range(l[i].groups[g].fileSets) :
                    g \in {h \in 1..Len(l[i].groups) :
                             l[i].groups[h].name = outputGroupName}} :
             i \in {j \in 1..Len(l) :
                      l[j].kind = "completed" /\ l[j].aspect = aspectName /\ l[j].success}}

ChildIds(l, ids) ==
    UNION {Range(l[i].sets) : i \in {j \in 1..Len(l) : l[j].kind = "namedSet" /\ l[j].id \in ids}}

RECURSIVE ReachableIds(_, _)
ReachableIds(l, ids) ==
    LET more == ids \cup ChildIds(l, ids) IN
    IF more = ids THEN ids ELSE ReachableIds(l, more)

\* The files of the named sets reachable from the roots; a function of the
\* events of the log, whatever their order.
ReachableFiles(l) ==
    UNION {Range(l[i].files) :
             i \in {j \in 1..Len(l) :
                      l[j].kind = "namedSet" /\ l[j].id \in ReachableIds(l, RootIds(l))}}

StrictlyAscending(fs) == \A i, j \in 1..Len(fs) : i < j => StringLess(fs[i], fs[j])

\* C7: when the build has succeeded, the log was read, every record decodes
\* and no target failed, buildPkgFiles returns without error a strictly
\* ascending list of exactly the files of the named sets reachable from the
\* root sets, whatever the order of the events in the log.
C7_SortedReachableFiles ==
    ( /\ bret.returned
      /\ bret.err.kind \notin {"TempFileError", "BuildError", "ReadError"}
      /\ Decodable(blog)
      /\ FailedTargets(blog) = {} )
    => /\ bret.err = NoErr
       /\ ~bret.nilFiles
       /\ StrictlyAscending(bret.files)
       /\ Range(bret.files) = ReachableFiles(blog)

\* C7 witness: the named sets come before the target-completed event, x.json
\* is reachable from both roots s2 and s1, and the result is [x.json, y.json].
C7_Witness ==
    /\ bret.returned
    /\ blog = << NamedSet("s2", <<fileY, fileX>>, <<"s2">>),
                 NamedSet("s1", <<fileX>>, <<"s2">>),
                 Completed("//b", aspectName, TRUE,
                           <<Group("default", <<"s1">>),
                             Group(outputGroupName, <<"", "s2", "s1">>)>>) >>
    /\ rootSets = <<"s2", "s1">>
    /\ bret.files = <<fileX, fileY>>
    /\ bret.err = NoErr

NoDuplicates(q) == \A i, j \in 1..Len(q) : i # j => q[i] # q[j]

ScenarioC ==
    << Completed("//a", aspectName, TRUE, <<Group(outputGroupName, <<"s1">>)>>),
       NamedSet("s1", <<fileX>>, <<"s2">>),
       NamedSet("s2", <<fileY>>, <<"s1">>) >>

\* C8: the traversal always ends in the return of buildPkgFiles, also when a
\* set lists itself or two sets list each other; no set identifier is
\* expanded twice; and the log of scenario C yields [x.json, y.json].
C8_TraversalTerminates ==
    /\ [](NoDuplicates(expanded))
    /\ []((bret.returned /\ blog = ScenarioC) => bret.files = <<fileX, fileY>>)
    /\ ((bpc = "visit") ~> (bpc = "done"))

\* C8 witness: scenario C has returned, each of s1 and s2 expanded once.
C8_Witness ==
    /\ bpc = "done"
    /\ blog = ScenarioC
    /\ expanded = <<"s1", "s2">>
    /\ bret.files = <<fileX, fileY>>

Least(S) == CHOOSE i \in S : \A j \in S : i <= j

C10_BadVarintFails ==
    ( /\ bret.returned
      /\ logData # <<>>
      /\ Head(logData).kind = "badVarint" )
    => bret.err # NoErr

(***************************************************************************)
(* Claims about list                                                       *)
(***************************************************************************)

\* list found a workspace root: it did not take the fallback path.
WorkspaceMode == ldirs.workspaceDir # <<>>

DistinctIDs(ps) == \A i, j \in 1..Len(ps) : i # j => ps[i].ID # ps[j].ID

\* C1: in workspace mode the Packages of a successful response hold every
\* loaded descriptor exactly once, so that pairwise distinct IDs of the loaded
\* descriptors give pairwise distinct IDs in Packages.
C1_PackagesOnce ==
    (WorkspaceMode /\ lresp.returned /\ lresp.err = NoErr) =>
        /\ Len(lresp.Packages) = Len(lloaded)
        /\ DistinctIDs(lloaded) => DistinctIDs(lresp.Packages)

\* The names of the stages started so far, "bazel info" left out.
StagesStarted ==
    LET NotInfo(e) == e.stage # "info"
        es == SelectSeq(lstages, NotInfo)
    IN [i \in 1..Len(es) |-> es[i].stage]

StageOrder == <<"query", "build", "decode", "load">>

\* C11: in workspace mode the stages start in the order query, build, decode,
\* load, each at most once; a stage that fails is the last one started, and
\* list has then returned its error with no roots and no packages.
C11_FirstFailureAborts ==
    WorkspaceMode =>
        /\ StagesStarted = SubSeq(StageOrder, 1, Len(StagesStarted))
        /\ \A i \in 1..Len(lstages) :
               lstages[i].failed =>
                   /\ i = Len(lstages)
                   /\ lresp.returned
                   /\ lresp.err # NoErr
                   /\ lresp.Roots = <<>>
                   /\ lresp.Packages = <<>>

AncestorsOrSelf(d) ==
    {dirRoot, d} \cup {SubSeq(d, 1, i - 1) : i \in {j \in 2..Len(d) : d[j] = "/"}}

HasMarker(d) == (IF d = dirRoot THEN d ELSE d \o sSlash) \o sWorkspace \in lfs

MarkedAncestors == {d \in AncestorsOrSelf(lcwd) : HasMarker(d)}

\* getBazelDirs has finished its walk.
WalkDone == lpc \notin {"getwd", "walk"} /\ lresp.err # GetwdErr

TookFallback ==
    \/ lpc = "fallback"
    \/ \E i \in 1..Len(lstages) : lstages[i].stage = "nativeLoad"

\* C18: every iteration of the walk that does not end it moves to a strictly
\* shorter, non-empty path, so the walk ends; list takes the fallback path exactly when neither the
\* working directory nor a directory above it holds the marker; on the fallback
\* path neither the query nor the build is started; otherwise the workspace
\* root is the nearest of those directories that holds the marker.
C18_FallbackIffNoMarker ==
    /\ [](WalkDone => (TookFallback <=> MarkedAncestors = {}))
    /\ [](TookFallback =>
             \A i \in 1..Len(lstages) : lstages[i].stage \notin {"info", "query", "build"})
    /\ []((WalkDone /\ ~TookFallback) =>
             /\ ldirs.workspaceDir \in MarkedAncestors
             /\ \A d \in MarkedAncestors : Len(d) <= Len(ldirs.workspaceDir))
    /\ [][(lpc = "walk" /\ lpc' = "walk") =>
              (Len(ldir') < Len(ldir) /\ Len(ldir') >= 1)]_vars

C18_Witness ==
    /\ lcwd = dirAB
    /\ lfs = {dirRoot \o sWorkspace}
    /\ ldirs.workspaceDir = dirRoot
    /\ lpc = "done"
    /\ lresp.err = NoErr

\* C12: the temporary event-log file does not exist once buildPkgFiles has
\* returned, whichever return it took, nor once it has panicked.
C12_TempFileRemoved ==
    (bret.returned \/ bpc = "panic") => ~tmpExists

C12_Witness ==
    /\ bret.returned
    /\ bret.err.kind = "TargetBuildError"
    /\ baspect # ""
    /\ ~tmpExists

\* The aspect name of each set of needs: file, "%gopackagesdriver_", then the
\* deps, export and test tokens of the needs in this order, then "aspect".
AspectTable(m) ==
    CASE m = {} -> aspectFileName \o "%gopackagesdriver_aspect"
      [] m = {"test"} -> aspectFileName \o "%gopackagesdriver_test_aspect"
      [] m = {"export"} -> aspectFileName \o "%gopackagesdriver_export_aspect"
      [] m = {"export", "test"} -> aspectFileName \o "%gopackagesdriver_export_test_aspect"
      [] m = {"deps"} -> aspectFileName \o "%gopackagesdriver_deps_aspect"
      [] m = {"deps", "test"} -> aspectFileName \o "%gopackagesdriver_deps_test_aspect"
      [] m = {"deps", "export"} -> aspectFileName \o "%gopackagesdriver_deps_export_aspect"
      [] m = {"deps", "export", "test"} ->
           aspectFileName \o "%gopackagesdriver_deps_export_test_aspect"

\* C14: the aspect name the build is started with in the request-driven
\* driver has each of the deps, export and test tokens exactly when the mode
\* of the request has that need.
C14_AspectEncodesMode ==
    baspect # "" => baspect = AspectTable(bmode)

\* C13: the flag-driven driver starts its build with the aspect name of the
\* table for the flags it parsed; the eight names of the table, and the eight
\* names the synthesis gives, are pairwise distinct; and each synthesized name
\* is the file, "%" and the name of an aspect aspect.bzl defines.
FacetsOf(deps, export, test) ==
    (IF deps THEN {"deps"} ELSE {}) \cup (IF export THEN {"export"} ELSE {})
        \cup (IF test THEN {"test"} ELSE {})

C13_AspectNamesDefined ==
    /\ \A m1, m2 \in SUBSET Facets : m1 # m2 => AspectTable(m1) # AspectTable(m2)
    /\ \A d, e, t \in BOOLEAN :
           /\ AspectNameOf(d, e, t) = AspectTable(FacetsOf(d, e, t))
           /\ \E a \in BzlAspects : AspectNameOf(d, e, t) = aspectFileName \o "%" \o a.name
    /\ faspect # "" =>
           /\ faspect = AspectTable(FacetsOf(needDeps, needExport, needTests))
           /\ \E a \in BzlAspects : faspect = aspectFileName \o "%" \o a.name

C13_Witness ==
    /\ fargs = <<<<"-">> \o sTest, <<"-">> \o sDeps>>
    /\ needDeps
    /\ ~needExport
    /\ needTests
    /\ faspect = aspectFileName \o "%gopackagesdriver_deps_test_aspect"

\* C16: when the native loader returns an error, listFallback returns the
\* nil error and a response without roots and without packages.
C16_LoaderErrorSwallowed ==
    kloadErr =>
        /\ kresp.returned
        /\ kresp.err = NoErr
        /\ kresp.Roots = <<>>
        /\ kresp.Packages = <<>>

C16_Witness ==
    /\ kloadErr
    /\ kpc = "done"
    /\ kresp.returned

\* The packages reachable from S through Imports in the graph g.
RECURSIVE ReachableFrom(_, _)
ReachableFrom(g, S) ==
    LET T == S \cup UNION {g[p] : p \in S} IN
    IF T = S THEN S ELSE ReachableFrom(g, T)

\* C17: when the loader succeeds, the traversal ends and listFallback returns;
\* Roots then is the loader's roots in the loader's order, and Packages holds
\* the packages reachable from the roots through Imports, each once.
C17_FlattenedOnce ==
    /\ []((kresp.returned /\ ~kloadErr) =>
             /\ kresp.err = NoErr
             /\ kresp.Roots = kroots
             /\ NoDuplicates(kresp.Packages)
             /\ Range(kresp.Packages) = ReachableFrom(kgraph, Range(kroots)))
    /\ ((kpc = "roots") ~> (kpc = "done" /\ kresp.returned))

\* Two roots that import each other and share a dependency that imports
\* itself.
C17_Witness ==
    /\ kresp.returned
    /\ kroots = <<"p2", "p1">>
    /\ kgraph = [p \in Pkgs |-> CASE p = "p1" -> {"p2", "p3"}
                                   [] p = "p2" -> {"p1", "p3"}
                                   [] p = "p3" -> {"p3"}]
    /\ kresp.Roots = <<"p2", "p1">>
    /\ Len(kresp.Packages) = 3

\* A package name that ends in "_test".
EndsInTest(pn) ==
    /\ Len(pn) >= 5
    /\ <<pn[Len(pn) - 4], pn[Len(pn) - 3], pn[Len(pn) - 2], pn[Len(pn) - 1], pn[Len(pn)]>>
           = <<"_", "t", "e", "s", "t">>

\* The compiled source m is kept under the active test filter.
KeptSrc(m) ==
    /\ m.matched
    /\ \/ testfilterName = "off"
       \/ testfilterName = "only" /\ EndsInTest(m.pkg)
       \/ testfilterName = "exclude" /\ ~EndsInTest(m.pkg)

KeptSrcs == SelectSeq(goSrcs, KeptSrc)

\* C19: the CompiledGoFiles of the written descriptor are the compiled
\* sources that matched and pass the test filter, in -go_src order.
C19_CompiledFilesFiltered ==
    (qcmd = "pkg" /\ qret.written) =>
        qpkg.CompiledGoFiles = [i \in 1..Len(KeptSrcs) |-> KeptSrcs[i].src]

\* Scenario B: filter "only" on a.go (package foo), a_test.go (package foo_test).
C19_Witness ==
    /\ qret.written
    /\ testfilterName = "only"
    /\ Len(goSrcs) = 2
    /\ goSrcs[1].src = "a.go" /\ goSrcs[1].matched /\ goSrcs[1].pkg = sFoo
    /\ goSrcs[2].src = "a_test.go" /\ goSrcs[2].matched
    /\ goSrcs[2].pkg = sFoo \o sUnderTest
    /\ qpkg.CompiledGoFiles = <<"a_test.go">>

\* C20: the Name of the written descriptor is the package name of the first
\* kept compiled source, and "empty" when none is kept.
C20_NameOfFirstKept ==
    (qcmd = "pkg" /\ qret.written) =>
        qpkg.Name = IF Len(KeptSrcs) = 0 THEN <<"e", "m", "p", "t", "y">>
                    ELSE KeptSrcs[1].pkg

\* Two kept files of different packages: the first one names the descriptor.
C20_Witness ==
    /\ qret.written
    /\ Len(KeptSrcs) = 2
    /\ KeptSrcs[1].pkg # KeptSrcs[2].pkg
    /\ qpkg.Name = KeptSrcs[1].pkg

\* The import paths that have a -arc entry.
ArcPaths == {archives[i].importPath : i \in 1..Len(archives)}

\* C21: the keys of Imports in the written descriptor are the import paths of
\* the kept compiled sources; a key with a -arc entry maps to the label of
\* such an entry, any other key to the stdlib prefix followed by the key.
C21_ImportsOfKeptSources ==
    (qcmd = "pkg" /\ qret.written) =>
        /\ DOMAIN qpkg.Imports =
               UNION {Range(KeptSrcs[i].imports) : i \in 1..Len(KeptSrcs)}
        /\ \A k \in DOMAIN qpkg.Imports :
               IF k \in ArcPaths
               THEN \E i \in 1..Len(archives) :
                       archives[i].importPath = k /\ qpkg.Imports[k] = archives[i].label
               ELSE qpkg.Imports[k] = "@io_bazel_rules_go//:stdlib%" \o k

\* A filtered-out file that imports dep, a kept file that imports fmt only, and
\* a -arc entry for dep.
C21_Witness ==
    /\ qcmd = "pkg"
    /\ qret.written
    /\ testfilterName = "exclude"
    /\ Len(archives) = 1
    /\ Len(goSrcs) = 2
    /\ goSrcs[1].matched /\ ~KeptSrc(goSrcs[1]) /\ goSrcs[1].imports = <<"dep", "fmt">>
    /\ KeptSrc(goSrcs[2]) /\ goSrcs[2].imports = <<"fmt">>
    /\ DOMAIN qpkg.Imports = {"fmt"}
    /\ qpkg.Imports["fmt"] = "@io_bazel_rules_go//:stdlib%fmt"

\* The first flag of the list that is empty, "" when none is.
FirstEmpty(names, fields) ==
    IF \A i \in 1..Len(names) : qflags[fields[i]] # "" THEN ""
    ELSE names[Least({i \in 1..Len(names) : qflags[fields[i]] = ""})]

PkgFirstEmpty ==
    FirstEmpty(<<"-id", "-importpath", "-importmap", "-o">>,
               <<"id", "importPath", "importMap", "outPath">>)

StdlibFirstEmpty == FirstEmpty(<<"-go", "-o">>, <<"goExe", "outPath">>)

WrapSetting == SelectSeq(wenv, LAMBDA kv : kv.key = "GO_TEST_WRAP")

XmlIsSet == \E k \in 1..Len(wenv) : wenv[k].key = "XML_OUTPUT_FILE"

\* C23: once shouldWrap has returned in the process, its result is the boolean
\* GO_TEST_WRAP stands for when that variable is set, whatever XML_OUTPUT_FILE
\* is, and is true exactly when XML_OUTPUT_FILE is set when GO_TEST_WRAP is not
\* set; in the child wrap starts, shouldWrap never returns true.
C23_ShouldWrap ==
    /\ wshould \in {"true", "false"} =>
           IF WrapSetting # <<>>
           THEN wshould = IF WrapSetting[1].value \in {"1", "t", "T", "TRUE", "true", "True"}
                          THEN "true" ELSE "false"
           ELSE wshould = IF XmlIsSet THEN "true" ELSE "false"
    /\ (WrapSetting = <<>> /\ wshould # "none") => wshould \in {"true", "false"}
    /\ (WrapSetting # <<>> /\ wshould # "none"
           /\ WrapSetting[1].value \in {"1", "t", "T", "TRUE", "true", "True",
                                        "0", "f", "F", "FALSE", "false", "False"})
          => wshould \in {"true", "false"}
    /\ cshould \in {"none", "false"}
    /\ cpc # "wrap"

\* The process wraps because GO_TEST_WRAP is 1, without XML_OUTPUT_FILE; its
\* child has decided not to wrap and runs the tests.
C23_Witness ==
    /\ WrapSetting # <<>>
    /\ WrapSetting[1].value = "1"
    /\ ~XmlIsSet
    /\ wshould = "true"
    /\ cshould = "false"
    /\ cpc = "tests"

\* The lines of an output: the bytes between newlines, and the bytes after the
\* last newline when there are any.
RECURSIVE LinesOf(_)
LinesOf(output) ==
    IF output = <<>> THEN <<>>
    ELSE IF \E k \in 1..Len(output) : output[k] = "\n"
    THEN LET n == CHOOSE k \in 1..Len(output) :
                     output[k] = "\n" /\ \A j \in 1..(k - 1) : output[j] # "\n"
         IN <<SubSeq(output, 1, n - 1)>> \o LinesOf(SubSeq(output, n + 1, Len(output)))
    ELSE <<output>>

\* A line without one trailing carriage return.
WithoutCR(line) ==
    IF line # <<>> /\ line[Len(line)] = "\r" THEN SubSeq(line, 1, Len(line) - 1) ELSE line

\* C24 as stated: queryTargets returns one label per line of the output, in
\* order, each without one trailing carriage return, duplicates kept, the last
\* line included when no newline ends the output.
C24_OneLabelPerLine ==
    (tpc = "done" /\ tret.err = NoErr) =>
        /\ Len(tret.targets) = Len(LinesOf(tbuf))
        /\ \A k \in 1..Len(tret.targets) : tret.targets[k] = WithoutCR(LinesOf(tbuf)[k])

\* The tests toXML has a test case for: those an event that handleJSONEvent
\* looks the test case up for has named.
NamedTests ==
    {xevents[k].Test :
        k \in {j \in 1..Len(xevents) :
                  /\ xevents[j].Test # <<>>
                  /\ xevents[j].Action \in {"run", "output", "skip", "fail", "pass"}}}

\* The last state an event has recorded for a test, "" when none has.
LastState(name) ==
    LET ks == {k \in 1..Len(xevents) :
                  /\ xevents[k].Test = name
                  /\ xevents[k].Action \in {"run", "skip", "fail", "pass"}}
    IN IF ks = {} THEN ""
       ELSE xevents[CHOOSE k \in ks : \A j \in ks : j <= k].Action

TestsInState(S) == Cardinality({n \in NamedTests : LastState(n) \in S})

\* C25: the report has one test case per named test, in ascending order of
\* name; tests is the number of named tests; failures and skipped count the
\* tests whose last recorded state is fail and skip, errors those whose last
\* recorded state is none of pass, skip and fail; tests is the sum of the
\* passed, failed, skipped and erroneous tests.
C25_ReportCounts ==
    xpc = "done" =>
        /\ Len(xreport.TestCases) = Cardinality(NamedTests)
        /\ {xreport.TestCases[k].Name : k \in 1..Len(xreport.TestCases)} = NamedTests
        /\ \A j, k \in 1..Len(xreport.TestCases) :
               j < k => StringLess(xreport.TestCases[j].Name, xreport.TestCases[k].Name)
        /\ xreport.Tests = Cardinality(NamedTests)
        /\ xreport.Failures = TestsInState({"fail"})
        /\ xreport.Skipped = TestsInState({"skip"})
        /\ xreport.Errors = TestsInState({"", "run"})
        /\ xreport.Tests =
               TestsInState({"pass"}) + xreport.Failures + xreport.Skipped + xreport.Errors

\* B is named before A; A has failed, B has only output: two test cases, A
\* first, one failure and one error.
C25_Witness ==
    /\ xpc = "done"
    /\ Len(xevents) = 3
    /\ xevents[1].Test = <<"B">>
    /\ xevents[1].Action = "output"
    /\ xevents[2].Test = <<"A">>
    /\ xevents[3].Action = "pause"
    /\ xreport.Tests = 2
    /\ xreport.Failures = 1
    /\ xreport.Errors = 1
    /\ xreport.TestCases[1].Name = <<"A">>

\* Close is about to range over tests.events or has done so, or wrap is about
\* to call writeXML or has written the report.
ReadsStarted ==
    \/ wpc = "closeRead"
    \/ wprinted >= 0
    \/ wpc = "xml" /\ XmlIsSet
    \/ wxml >= 0

\* C26 as stated: from the moment Close or writeXML reads what handleJSONEvent
\* records, decodeJSONEvents holds no event it has still to hand to
\* handleJSONEvent, and no event the converter held is written to the closed
\* pipe.
C26_EventsHandledBeforeReads ==
    /\ ReadsStarted => dpc # "handle"
    /\ wlost = 0

====
